---- MODULE Spec2Model ----
(***************************************************************************)
(* A model of the exception-free CSV reader (io::LineReader and            *)
(* io::CSVReader).  Bytes are one-character strings, the buffer is an      *)
(* array of bytes indexed from 0, and a char pointer into the buffer is    *)
(* the index it points at.                                                 *)
(***************************************************************************)
EXTENDS Integers, Sequences, FiniteSets, TLC

VARIABLES
    in,             \* the LineReader: buffer, cursors, line counter, byte source
    row,            \* CSVReader::row, one char pointer per declared column
    column_names,   \* CSVReader::column_names
    col_order,      \* CSVReader::col_order
    policy,         \* the policies the reader was instantiated with
    err,            \* the caller's error slot (std::shared_ptr<error::error>)
    out,            \* the caller's variables handed to read_row
    col_type,       \* the declared types of the caller's variables
    ret,            \* what the last call returned to the caller
    content,        \* the bytes the byte source held at construction (never changes)
    nlines,         \* number of lines LineReader::next_line has handed out so far
    hdr,            \* the last call that set the header, and the line it parsed
    failed          \* whether some call on this reader has populated an error

vars == <<in, row, column_names, col_order, policy, err, out, col_type, ret,
          content, nlines, hdr, failed>>

(***************************************************************************)
(* Bounds of the model.                                                    *)
(***************************************************************************)
\* LineReader::block_len, scaled down from 1<<20 so that lines cross blocks
block_len == 4
\* longest byte source content of the LineReader specification
MaxContent == 8
\* the model stops calling the reader once the line counter reaches this value
MaxFileLine == 10

(***************************************************************************)
(* Bytes.                                                                  *)
(***************************************************************************)
NUL == "NUL"            \* '\0'
LF == "\n"
CR == "\r"
UNINIT == "?"           \* a byte of new char[] that was never written
BOM == <<"EF", "BB", "BF">>

\* a null char pointer
nullptr == -1

Min(a, b) == IF a < b THEN a ELSE b

\* std::memcpy(buffer + dst, buffer + src, n), the two ranges not overlapping
memcpy(buffer, dst, src, n) ==
    [i \in DOMAIN buffer |->
        IF dst <= i /\ i < dst + n THEN buffer[i - dst + src] ELSE buffer[i]]

\* The C string a char pointer p designates: the bytes from p up to the first '\0'
RECURSIVE CStr(_, _)
CStr(buffer, p) ==
    IF p \notin DOMAIN buffer \/ buffer[p] = NUL THEN <<>>
    ELSE <<buffer[p]>> \o CStr(buffer, p + 1)

(***************************************************************************)
(* NonOwningStringByteSource::read: copies min(desired, remaining) bytes   *)
(* to buffer + at and advances the source.                                 *)
(***************************************************************************)
ByteSourceRead(src, buffer, at, desired_byte_count) ==
    LET to_copy_byte_count == Min(desired_byte_count, Len(src))
    IN  [n      |-> to_copy_byte_count,
         source |-> SubSeq(src, to_copy_byte_count + 1, Len(src)),
         buffer |-> [i \in DOMAIN buffer |->
                        IF at <= i /\ i < at + to_copy_byte_count
                        THEN src[i - at + 1] ELSE buffer[i]]]

\* in the description of a byte source that gives its bytes piecewise: the
\* place where a read stops although bytes remain
Boundary == "|"

\* the bytes a read of src can take: those before the first Boundary
RECURSIVE Piece(_)
Piece(src) ==
    IF src = <<>> \/ Head(src) = Boundary THEN 0 ELSE 1 + Piece(Tail(src))

(***************************************************************************)
(* read of a ByteSourceBase that fills the buffer with at most size bytes  *)
(* and returns how many it wrote: fewer than size while bytes remain when  *)
(* the piece at hand is shorter, 0 only when it has run out of bytes.      *)
(***************************************************************************)
PiecewiseRead(src, buffer, at, size) ==
    LET n == Min(size, Piece(src))
        rest == SubSeq(src, n + 1, Len(src))
    IN  [n      |-> n,
         source |-> IF rest /= <<>> /\ Head(rest) = Boundary THEN Tail(rest) ELSE rest,
         buffer |-> [i \in DOMAIN buffer |->
                        IF at <= i /\ i < at + n THEN src[i - at + 1] ELSE buffer[i]]]

\* byte_source->read(buffer, size): the read of the source at hand
read(src, buffer, at, size) ==
    IF \E k \in DOMAIN src : src[k] = Boundary
    THEN PiecewiseRead(src, buffer, at, size)
    ELSE ByteSourceRead(src, buffer, at, size)

\* a start_read that records the start of the buffer as its target
start_read_at_front(reader, arg_buffer, arg_desired_byte_count) ==
    [reader EXCEPT !.buffer = 0,
                   !.desired_byte_count = arg_desired_byte_count,
                   !.calls = Append(@, "start_read")]

\* SynchronousReader::start_read: records the target, reads nothing.  The
\* field calls is the history, kept for the checks, of what was called on the
\* byte source and on the reader: "read" for the read of init, then
\* "start_read" and "finish_read"
start_read(reader, arg_buffer, arg_desired_byte_count) ==
    [reader EXCEPT !.buffer = arg_buffer,
                   !.desired_byte_count = arg_desired_byte_count,
                   !.calls = Append(@, "start_read")]

\* SynchronousReader::finish_read: the read into the recorded target
finish_read(l) ==
    LET done(rd) ==
            [n |-> rd.n, source |-> rd.source, buffer |-> rd.buffer,
             reader |-> [l.reader EXCEPT !.calls = Append(@, "finish_read")]]
    IN  done(read(l.source, l.buffer, l.reader.buffer, l.reader.desired_byte_count))

(***************************************************************************)
(* LineReader::init with a byte source holding src.                        *)
(***************************************************************************)
init(src, file_name) ==
    LET fresh == [i \in 0..(3 * block_len - 1) |-> UNINIT]
        rd == read(src, fresh, 0, 2 * block_len)
        data_end == rd.n
        data_begin ==
            IF data_end >= 3 /\ rd.buffer[0] = BOM[1] /\ rd.buffer[1] = BOM[2]
                             /\ rd.buffer[2] = BOM[3]
            THEN 3 ELSE 0
        unset == [valid |-> FALSE, buffer |-> 0, desired_byte_count |-> 0,
                  calls |-> <<"read">>]
    IN  [buffer     |-> rd.buffer,
         data_begin |-> data_begin,
         data_end   |-> data_end,
         file_line  |-> 0,
         file_name  |-> file_name,
         source     |-> rd.source,
         reader     |-> IF data_end = 2 * block_len
                        THEN start_read([unset EXCEPT !.valid = TRUE],
                                        2 * block_len, block_len)
                        ELSE unset]

(***************************************************************************)
(* Errors: the kind is the class of the error object, the other fields are *)
(* the ones its setters fill; a field no setter was called on is Unset.    *)
(***************************************************************************)
Unset == "unset"
\* error::file_line before set_file_line was called on the error
NoLine == -1

\* error::errno_ before set_errno was called on the error
NoErrno == 0

make_error(kind) ==
    [kind |-> kind, file_name |-> Unset, file_line |-> NoLine, errno_ |-> NoErrno,
     column_name |-> <<>>, column_content |-> <<>>, error |-> Unset]

\* the empty slot (a null shared_ptr)
NoError == make_error("none")

\* if (err)
Pending(e) == e.kind /= "none"

(***************************************************************************)
(* LineReader::next_line.  The result holds the reader after the call, the *)
(* error slot after the call and the returned pointer.                     *)
(***************************************************************************)
RECURSIVE find_line_end(_, _, _)
find_line_end(buffer, line_end, data_end) ==
    IF line_end /= data_end /\ buffer[line_end] /= LF
    THEN find_line_end(buffer, line_end + 1, data_end)
    ELSE line_end

\* shift_window without the copy of the block read ahead into the window
shift_window_refill_lost(l) ==
    IF l.data_begin >= block_len
    THEN LET moved == [l EXCEPT !.buffer = memcpy(l.buffer, 0, block_len, block_len),
                                !.data_begin = l.data_begin - block_len,
                                !.data_end = l.data_end - block_len]
         IN  IF moved.reader.valid
             THEN LET rd == finish_read(moved)
                  IN  [moved EXCEPT
                         !.data_end = moved.data_end + rd.n,
                         !.source = rd.source,
                         !.buffer = rd.buffer,
                         !.reader = start_read(rd.reader, 2 * block_len, block_len)]
             ELSE moved
    ELSE l

\* lines 1118-1129: move the window down by one block and refill
shift_window(l) ==
    IF l.data_begin >= block_len
    THEN LET moved == [l EXCEPT !.buffer = memcpy(l.buffer, 0, block_len, block_len),
                                !.data_begin = l.data_begin - block_len,
                                !.data_end = l.data_end - block_len]
         IN  IF moved.reader.valid
             THEN LET rd == finish_read(moved)
                  IN  [moved EXCEPT
                         !.data_end = moved.data_end + rd.n,
                         !.source = rd.source,
                         !.buffer = memcpy(rd.buffer, block_len, 2 * block_len, block_len),
                         !.reader = start_read(rd.reader, 2 * block_len, block_len)]
             ELSE moved
    ELSE l

\* terminate_line that leaves data_end alone when the last line lacks its '\n'
terminate_line_end_kept(l, line_end, e) ==
    LET b1 == [l.buffer EXCEPT ![line_end] = NUL]
        b2 == IF line_end /= l.data_begin /\ b1[line_end - 1] = CR
              THEN [b1 EXCEPT ![line_end - 1] = NUL] ELSE b1
    IN  [in  |-> [l EXCEPT !.buffer = b2, !.data_begin = line_end + 1],
         err |-> e,
         ret |-> l.data_begin]

\* lines 1145-1170: terminate the line, drop a '\r', advance data_begin
terminate_line(l, line_end, e) ==
    LET found == line_end /= l.data_end /\ l.buffer[line_end] = LF
        data_end == IF found THEN l.data_end ELSE l.data_end + 1
        b1 == [l.buffer EXCEPT ![line_end] = NUL]
        b2 == IF line_end /= l.data_begin /\ b1[line_end - 1] = CR
              THEN [b1 EXCEPT ![line_end - 1] = NUL] ELSE b1
    IN  [in  |-> [l EXCEPT !.buffer = b2, !.data_end = data_end,
                           !.data_begin = line_end + 1],
         err |-> e,
         ret |-> l.data_begin]

\* lines 1103-1170: LineReader::next_line past its check of the error slot
next_line_body(l, e) ==
    IF l.data_begin = l.data_end THEN [in |-> l, err |-> e, ret |-> nullptr]
    ELSE
      LET counted == [l EXCEPT !.file_line = l.file_line + 1]
      IN  IF counted.data_begin >= counted.data_end
          THEN [in |-> counted,
                err |-> [make_error("internal_error") EXCEPT
                            !.error = "Internal error: data_begin >= data_end"],
                ret |-> nullptr]
          ELSE IF counted.data_end > block_len * 2
          THEN [in |-> counted,
                err |-> [make_error("internal_error") EXCEPT
                            !.error = "Internal error: data_end > block_len*2\n"],
                ret |-> nullptr]
          ELSE
            LET s == shift_window(counted)
                line_end == find_line_end(s.buffer, s.data_begin, s.data_end)
            IN  IF line_end - s.data_begin + 1 > block_len
                THEN [in |-> s,
                      err |-> [make_error("line_length_limit_exceeded") EXCEPT
                                  !.file_name = s.file_name,
                                  !.file_line = s.file_line],
                      ret |-> nullptr]
                ELSE terminate_line(s, line_end, e)

\* a next_line that counts a line before it looks at the error slot
next_line_counts_first(l, e) ==
    IF Pending(e)
    THEN [in |-> [l EXCEPT !.file_line = l.file_line + 1], err |-> e, ret |-> nullptr]
    ELSE next_line_body(l, e)

\* LineReader::next_line
next_line(l, e) ==
    IF Pending(e) THEN [in |-> l, err |-> e, ret |-> nullptr]
    ELSE next_line_body(l, e)

(***************************************************************************)
(* Policies.  The reader is instantiated with trim_chars<' ', '\t'>, a     *)
(* quote policy with ',' as separator and '"' as quote, and a comment      *)
(* policy with '#' as comment start.                                       *)
(***************************************************************************)
Sep == ","
Quote == "\""
TrimChars == {" ", "\t"}
CommentStart == {"#"}

\* ignore_column flags
ignore_no_column == 0
ignore_extra_column == 1
ignore_missing_column == 2

\* a test of the whole ignore_policy where one flag is meant
HasFlag_any(ignore_policy, flag) == ignore_policy /= 0

\* ignore_policy & flag, for a one-bit flag
HasFlag(ignore_policy, flag) == (ignore_policy \div flag) % 2 = 1

\* trim_chars::is_trim_char
is_trim_char(c) == c \in TrimChars

RECURSIVE trim_front(_, _, _)
trim_front(buffer, str_begin, str_end) ==
    IF str_begin /= str_end /\ is_trim_char(buffer[str_begin])
    THEN trim_front(buffer, str_begin + 1, str_end) ELSE str_begin

RECURSIVE trim_back(_, _, _)
trim_back(buffer, str_begin, str_end) ==
    IF str_begin /= str_end /\ is_trim_char(buffer[str_end - 1])
    THEN trim_back(buffer, str_begin, str_end - 1) ELSE str_end

\* a trim that leaves the front of the column alone
trim_back_only(buffer, str_begin, str_end) ==
    LET e == trim_back(buffer, str_begin, str_end)
    IN  [buffer |-> [buffer EXCEPT ![e] = NUL], col_begin |-> str_begin, col_end |-> e]

\* trim_chars::trim: moves both ends inwards and terminates the column
trim(buffer, str_begin, str_end) ==
    LET b == trim_front(buffer, str_begin, str_end)
        e == trim_back(buffer, b, str_end)
    IN  [buffer |-> [buffer EXCEPT ![e] = NUL], col_begin |-> b, col_end |-> e]

\* a single_line_comment that knows no comment start character
single_line_is_comment_none(buffer, line) == FALSE

\* single_line_comment::is_comment
single_line_is_comment(buffer, line) == buffer[line] \in CommentStart

\* empty_line_comment::is_comment
RECURSIVE empty_line_scan(_, _)
empty_line_scan(buffer, line) ==
    IF buffer[line] = " " \/ buffer[line] = "\t"
    THEN IF buffer[line + 1] = NUL THEN TRUE ELSE empty_line_scan(buffer, line + 1)
    ELSE FALSE

\* an empty_line_comment that takes only lines of spaces and tabs, not the empty line
empty_line_is_comment_blank_only(buffer, line) ==
    IF buffer[line] = NUL THEN FALSE ELSE empty_line_scan(buffer, line)

empty_line_is_comment(buffer, line) ==
    IF buffer[line] = NUL THEN TRUE ELSE empty_line_scan(buffer, line)

\* a comment policy that takes no line for a comment
is_comment_never(comment_policy, buffer, line) == FALSE

\* comment_policy::is_comment
is_comment(comment_policy, buffer, line) ==
    CASE comment_policy = "no_comment" -> FALSE
      [] comment_policy = "single_line_comment" -> single_line_is_comment(buffer, line)
      [] comment_policy = "empty_line_comment" -> empty_line_is_comment(buffer, line)
      [] comment_policy = "single_and_empty_line_comment" ->
            single_line_is_comment(buffer, line) \/ empty_line_is_comment(buffer, line)

\* no_quote_escape::find_next_column_end
RECURSIVE no_quote_find_next_column_end(_, _)
no_quote_find_next_column_end(buffer, col_begin) ==
    IF buffer[col_begin] /= Sep /\ buffer[col_begin] /= NUL
    THEN no_quote_find_next_column_end(buffer, col_begin + 1)
    ELSE [col_end |-> col_begin, closed |-> TRUE]

\* the inner while of double_quote_escape::find_next_column_end: the next
\* quote at or after p, or nullptr when the string ends first
RECURSIVE closing_quote(_, _)
closing_quote(buffer, p) ==
    IF buffer[p] = Quote THEN p
    ELSE IF buffer[p] = NUL THEN nullptr
    ELSE closing_quote(buffer, p + 1)

\* double_quote_escape::find_next_column_end; quoted_run is its do-while,
\* entered with col_begin at a quote
RECURSIVE double_quote_find_next_column_end(_, _), quoted_run(_, _)
quoted_run(buffer, col_begin) ==
    LET q == closing_quote(buffer, col_begin + 1)
    IN  IF q = nullptr THEN [col_end |-> nullptr, closed |-> FALSE]
        ELSE IF buffer[q + 1] = Quote THEN quoted_run(buffer, q + 1)
        ELSE double_quote_find_next_column_end(buffer, q + 1)

double_quote_find_next_column_end(buffer, col_begin) ==
    IF buffer[col_begin] /= Sep /\ buffer[col_begin] /= NUL
    THEN IF buffer[col_begin] /= Quote
         THEN double_quote_find_next_column_end(buffer, col_begin + 1)
         ELSE quoted_run(buffer, col_begin)
    ELSE [col_end |-> col_begin, closed |-> TRUE]

\* a find_next_column_end that gives quotes no meaning under either policy
find_next_column_end_unquoted(quote_policy, buffer, col_begin) ==
    no_quote_find_next_column_end(buffer, col_begin)

\* quote_policy::find_next_column_end
find_next_column_end(quote_policy, buffer, col_begin) ==
    IF quote_policy = "double_quote_escape"
    THEN double_quote_find_next_column_end(buffer, col_begin)
    ELSE no_quote_find_next_column_end(buffer, col_begin)

\* the for loop of double_quote_escape::unescape
RECURSIVE unescape_copy(_, _, _, _)
unescape_copy(buffer, in_, out_, col_end) ==
    IF in_ = col_end THEN [buffer |-> [buffer EXCEPT ![out_] = NUL], col_end |-> out_]
    ELSE LET from == IF buffer[in_] = Quote /\ in_ + 1 /= col_end
                        /\ buffer[in_ + 1] = Quote
                     THEN in_ + 1 ELSE in_
         IN  unescape_copy([buffer EXCEPT ![out_] = buffer[from]],
                           from + 1, out_ + 1, col_end)

\* an unescape that copies every byte between the outer quotes
unescape_keeps_pairs(quote_policy, buffer, col_begin, col_end) ==
    IF /\ quote_policy = "double_quote_escape"
       /\ col_end - col_begin >= 2
       /\ buffer[col_begin] = Quote
       /\ buffer[col_end - 1] = Quote
    THEN [buffer |-> [buffer EXCEPT ![col_end - 1] = NUL],
          col_begin |-> col_begin + 1, col_end |-> col_end - 1]
    ELSE [buffer |-> buffer, col_begin |-> col_begin, col_end |-> col_end]

\* quote_policy::unescape
unescape(quote_policy, buffer, col_begin, col_end) ==
    IF /\ quote_policy = "double_quote_escape"
       /\ col_end - col_begin >= 2
       /\ buffer[col_begin] = Quote
       /\ buffer[col_end - 1] = Quote
    THEN LET u == unescape_copy(buffer, col_begin + 1, col_begin + 1, col_end - 1)
         IN  [buffer |-> u.buffer, col_begin |-> col_begin + 1, col_end |-> u.col_end]
    ELSE [buffer |-> buffer, col_begin |-> col_begin, col_end |-> col_end]

\* detail::chop_next_column
chop_next_column(quote_policy, buffer, line, e) ==
    IF Pending(e)
    THEN [ok |-> FALSE, buffer |-> buffer, line |-> line,
          col_begin |-> nullptr, col_end |-> nullptr, err |-> e]
    ELSE IF line = nullptr
    THEN [ok |-> FALSE, buffer |-> buffer, line |-> line,
          col_begin |-> nullptr, col_end |-> nullptr,
          err |-> [make_error("internal_error") EXCEPT
                      !.error = "Internal error: line is null in chop_next_column"]]
    ELSE LET f == find_next_column_end(quote_policy, buffer, line)
         IN  IF ~f.closed
             THEN [ok |-> FALSE, buffer |-> buffer, line |-> line,
                   col_begin |-> line, col_end |-> nullptr,
                   err |-> make_error("escaped_string_not_closed")]
             ELSE IF buffer[f.col_end] = NUL
             THEN [ok |-> TRUE, buffer |-> buffer, line |-> nullptr,
                   col_begin |-> line, col_end |-> f.col_end, err |-> e]
             ELSE [ok |-> TRUE, buffer |-> [buffer EXCEPT ![f.col_end] = NUL],
                   line |-> f.col_end + 1,
                   col_begin |-> line, col_end |-> f.col_end, err |-> e]

\* the for loop of detail::parse_line, at the k-th entry of col_order
RECURSIVE parse_line_from(_, _, _, _, _, _)
parse_line_from(quote_policy, buffer, line, sorted_col, order, k) ==
    IF k > Len(order)
    THEN IF line /= nullptr
         THEN [ok |-> FALSE, buffer |-> buffer, row |-> sorted_col,
               err |-> make_error("too_many_columns")]
         ELSE [ok |-> TRUE, buffer |-> buffer, row |-> sorted_col, err |-> NoError]
    ELSE IF line = nullptr
    THEN [ok |-> FALSE, buffer |-> buffer, row |-> sorted_col,
          err |-> make_error("too_few_columns")]
    ELSE LET c == chop_next_column(quote_policy, buffer, line, NoError)
         IN  IF ~c.ok
             THEN [ok |-> FALSE, buffer |-> c.buffer, row |-> sorted_col, err |-> c.err]
             ELSE IF order[k] /= -1
             THEN LET t == trim(c.buffer, c.col_begin, c.col_end)
                      u == unescape(quote_policy, t.buffer, t.col_begin, t.col_end)
                  IN  parse_line_from(quote_policy, u.buffer, c.line,
                                      [sorted_col EXCEPT ![order[k]] = u.col_begin],
                                      order, k + 1)
             ELSE parse_line_from(quote_policy, c.buffer, c.line, sorted_col,
                                  order, k + 1)

\* a parse_line whose loop starts at the second entry of col_order
parse_line_from_second(quote_policy, buffer, line, sorted_col, order, e) ==
    IF Pending(e)
    THEN [ok |-> FALSE, buffer |-> buffer, row |-> sorted_col, err |-> e]
    ELSE parse_line_from(quote_policy, buffer, line, sorted_col, order, 2)

\* detail::parse_line
parse_line(quote_policy, buffer, line, sorted_col, order, e) ==
    IF Pending(e)
    THEN [ok |-> FALSE, buffer |-> buffer, row |-> sorted_col, err |-> e]
    ELSE parse_line_from(quote_policy, buffer, line, sorted_col, order, 1)

\* the declared columns, 0 .. column_count-1
Columns(col_name) == DOMAIN col_name

\* check_missing reporting the missing name of highest index
check_missing_last(buffer, order, found, col_name, ignore_policy) ==
    IF ~HasFlag(ignore_policy, ignore_missing_column)
       /\ \E i \in Columns(col_name) : i \notin found
    THEN LET i == CHOOSE j \in Columns(col_name) :
                     j \notin found /\ \A m \in Columns(col_name) : m > j => m \in found
         IN  [ok |-> FALSE, buffer |-> buffer, col_order |-> order,
              err |-> [make_error("missing_column_in_header") EXCEPT
                          !.column_name = col_name[i]]]
    ELSE [ok |-> TRUE, buffer |-> buffer, col_order |-> order, err |-> NoError]

\* lines 1726-1737 of detail::parse_header_line: the declared names not found
check_missing(buffer, order, found, col_name, ignore_policy) ==
    IF ~HasFlag(ignore_policy, ignore_missing_column)
       /\ \E i \in Columns(col_name) : i \notin found
    THEN LET i == CHOOSE j \in Columns(col_name) :
                     j \notin found /\ \A m \in Columns(col_name) : m < j => m \in found
         IN  [ok |-> FALSE, buffer |-> buffer, col_order |-> order,
              err |-> [make_error("missing_column_in_header") EXCEPT
                          !.column_name = col_name[i]]]
    ELSE [ok |-> TRUE, buffer |-> buffer, col_order |-> order, err |-> NoError]

\* the while loop of detail::parse_header_line
RECURSIVE parse_header_columns(_, _, _, _, _, _, _)
parse_header_columns(quote_policy, buffer, line, order, found, col_name, ignore_policy) ==
    IF line = nullptr
    THEN check_missing(buffer, order, found, col_name, ignore_policy)
    ELSE
      LET c == chop_next_column(quote_policy, buffer, line, NoError)
      IN  IF ~c.ok
          THEN [ok |-> FALSE, buffer |-> c.buffer, col_order |-> order, err |-> c.err]
          ELSE
            LET t == trim(c.buffer, c.col_begin, c.col_end)
                u == unescape(quote_policy, t.buffer, t.col_begin, t.col_end)
                name == CStr(u.buffer, u.col_begin)
                hits == {i \in Columns(col_name) : col_name[i] = name}
            IN  IF hits /= {}
                THEN LET i == CHOOSE j \in hits : \A m \in hits : j <= m
                     IN  IF i \in found
                         THEN [ok |-> FALSE, buffer |-> u.buffer, col_order |-> order,
                               err |-> [make_error("duplicated_column_in_header")
                                           EXCEPT !.column_name = name]]
                         ELSE parse_header_columns(quote_policy, u.buffer, c.line,
                                                   Append(order, i), found \cup {i},
                                                   col_name, ignore_policy)
                ELSE IF HasFlag(ignore_policy, ignore_extra_column)
                THEN parse_header_columns(quote_policy, u.buffer, c.line,
                                          Append(order, -1), found,
                                          col_name, ignore_policy)
                ELSE [ok |-> FALSE, buffer |-> u.buffer, col_order |-> order,
                      err |-> [make_error("extra_column_in_header")
                                  EXCEPT !.column_name = name]]

\* detail::parse_header_line
parse_header_line(quote_policy, buffer, line, order, col_name, ignore_policy, e) ==
    IF Pending(e)
    THEN [ok |-> FALSE, buffer |-> buffer, col_order |-> order, err |-> e]
    ELSE parse_header_columns(quote_policy, buffer, line, <<>>, {},
                              col_name, ignore_policy)

(***************************************************************************)
(* Field parsers (detail::parse).  A target type is named as in C++; x is  *)
(* the caller's variable, and the result holds its value after the call.   *)
(***************************************************************************)
Digits == <<"0", "1", "2", "3", "4", "5", "6", "7", "8", "9">>

is_digit(c) == \E d \in 1..10 : Digits[d] = c

\* *col - '0'
digit_value(c) == (CHOOSE d \in 1..10 : Digits[d] = c) - 1

IsSigned(T) == T \in {"short", "signed char"}
IsUnsigned(T) == T \in {"unsigned short", "unsigned char"}
Bits(T) == IF T \in {"signed char", "unsigned char"} THEN 8 ELSE 16

\* std::numeric_limits<T>::max() and min()
numeric_max(T) == IF IsSigned(T) THEN 2 ^ (Bits(T) - 1) - 1 ELSE 2 ^ Bits(T) - 1
numeric_min(T) == IF IsSigned(T) THEN -(2 ^ (Bits(T) - 1)) ELSE 0

\* a division that rounds towards minus infinity
cdiv_floor(a, b) == a \div b

\* C++ integer division, which truncates towards zero
cdiv(a, b) == IF a >= 0 THEN a \div b ELSE -((-a) \div b)

\* overflow_policy::on_overflow and on_underflow
on_overflow(overflow_policy, T, x) ==
    IF overflow_policy = "set_to_max_on_overflow" THEN numeric_max(T) ELSE x

on_underflow(overflow_policy, T, x) ==
    IF overflow_policy = "set_to_max_on_overflow" THEN numeric_min(T) ELSE x

\* the while loop of detail::parse_unsigned_integer, at the k-th byte of s
RECURSIVE unsigned_digits(_, _, _, _, _)
unsigned_digits(overflow_policy, s, k, T, x) ==
    IF k > Len(s) THEN [ok |-> TRUE, x |-> x, err |-> NoError]
    ELSE IF is_digit(s[k])
    THEN LET y == digit_value(s[k])
         IN  IF x > cdiv(numeric_max(T) - y, 10)
             THEN [ok |-> TRUE, x |-> on_overflow(overflow_policy, T, x), err |-> NoError]
             ELSE unsigned_digits(overflow_policy, s, k + 1, T, 10 * x + y)
    ELSE [ok |-> FALSE, x |-> x, err |-> make_error("no_digit")]

\* a parse_unsigned_integer that reads a leading '-' as a byte that is no digit
parse_unsigned_integer_sign_unseen(overflow_policy, s, T, x, e) ==
    IF Pending(e) THEN [ok |-> FALSE, x |-> x, err |-> e]
    ELSE unsigned_digits(overflow_policy, s, 1, T, 0)

\* detail::parse_unsigned_integer on the C string s
parse_unsigned_integer(overflow_policy, s, T, x, e) ==
    IF Pending(e) THEN [ok |-> FALSE, x |-> x, err |-> e]
    ELSE IF Len(s) > 0 /\ s[1] = "-"
    THEN [ok |-> FALSE, x |-> x, err |-> make_error("integer_must_be_positive")]
    ELSE unsigned_digits(overflow_policy, s, 1, T, 0)

\* the while loop of the negative branch of detail::parse_signed_integer
RECURSIVE negative_digits(_, _, _, _, _)
negative_digits(overflow_policy, s, k, T, x) ==
    IF k > Len(s) THEN [ok |-> TRUE, x |-> x, err |-> NoError]
    ELSE IF is_digit(s[k])
    THEN LET y == digit_value(s[k])
         IN  IF x < cdiv(numeric_min(T) + y, 10)
             THEN [ok |-> TRUE, x |-> on_underflow(overflow_policy, T, x), err |-> NoError]
             ELSE negative_digits(overflow_policy, s, k + 1, T, 10 * x - y)
    ELSE [ok |-> FALSE, x |-> x, err |-> make_error("no_digit")]

\* detail::parse_signed_integer on the C string s
parse_signed_integer(overflow_policy, s, T, x, e) ==
    IF Pending(e) THEN [ok |-> FALSE, x |-> x, err |-> e]
    ELSE IF Len(s) > 0 /\ s[1] = "-"
    THEN negative_digits(overflow_policy, s, 2, T, 0)
    ELSE IF Len(s) > 0 /\ s[1] = "+"
    THEN parse_unsigned_integer(overflow_policy, SubSeq(s, 2, Len(s)), T, x, e)
    ELSE parse_unsigned_integer(overflow_policy, s, T, x, e)

\* detail::parse(char *col, char &x, err)
parse_char(s, x, e) ==
    IF Pending(e) THEN [ok |-> FALSE, x |-> x, err |-> e]
    ELSE IF Len(s) = 0
    THEN [ok |-> FALSE, x |-> x, err |-> make_error("invalid_single_character")]
    ELSE IF Len(s) > 1
    THEN [ok |-> FALSE, x |-> s[1], err |-> make_error("invalid_single_character")]
    ELSE [ok |-> TRUE, x |-> s[1], err |-> e]

\* detail::parse(char *col, std::string &x, err)
parse_string(s, x, e) == [ok |-> TRUE, x |-> s, err |-> e]

\* the detail::parse overload chosen by the type of the caller's variable
parse(overflow_policy, s, T, x, e) ==
    CASE T = "char" -> parse_char(s, x, e)
      [] T = "std::string" -> parse_string(s, x, e)
      [] IsUnsigned(T) -> parse_unsigned_integer(overflow_policy, s, T, x, e)
      [] IsSigned(T) -> parse_signed_integer(overflow_policy, s, T, x, e)

(***************************************************************************)
(* CSVReader.                                                              *)
(***************************************************************************)
\* template parameter column_count
column_count == 2

\* the do-while loops of read_header and read_row: lines are fetched until
\* one is no comment; n counts the lines fetched
RECURSIVE fetch_line(_, _, _, _)
fetch_line(comment_policy, l, e, n) ==
    LET got(r) ==
            IF r.ret = nullptr \/ Pending(r.err)
            THEN [in |-> r.in, err |-> r.err, ret |-> nullptr, n |-> n]
            ELSE IF is_comment(comment_policy, r.in.buffer, r.ret)
            THEN fetch_line(comment_policy, r.in, r.err, n + 1)
            ELSE [in |-> r.in, err |-> r.err, ret |-> r.ret, n |-> n + 1]
    IN  got(next_line(l, e))

\* The C string read through row[r].  A pointer left over from an earlier
\* line may run into bytes that were never written: such a byte reads as g,
\* any value the memory may hold, and the read stops at the end of the buffer.
RECURSIVE read_column(_, _, _)
read_column(buffer, p, g) ==
    IF p \notin DOMAIN buffer THEN <<>>
    ELSE LET c == IF buffer[p] = UNINIT THEN g ELSE buffer[p]
         IN  IF c = NUL THEN <<>> ELSE <<c>> \o read_column(buffer, p + 1, g)

\* a parse_helper that converts every column and keeps the first error
RECURSIVE parse_helper_to_the_end(_, _, _, _, _, _, _, _, _)
parse_helper_to_the_end(r, overflow_policy, buffer, rowp, names, types, x, e, g) ==
    IF r \notin DOMAIN rowp THEN [out |-> x, err |-> e]
    ELSE IF rowp[r] /= nullptr
    THEN LET s == read_column(buffer, rowp[r], g)
             p == parse(overflow_policy, s, types[r], x[r], NoError)
         IN  parse_helper_to_the_end(r + 1, overflow_policy, buffer, rowp, names, types,
                                     [x EXCEPT ![r] = p.x],
                                     IF Pending(e) \/ p.ok THEN e
                                     ELSE [p.err EXCEPT !.column_content = s,
                                                        !.column_name = names[r]],
                                     g)
    ELSE parse_helper_to_the_end(r + 1, overflow_policy, buffer, rowp, names, types,
                                 x, e, g)

\* CSVReader::parse_helper from declared column r on
RECURSIVE parse_helper(_, _, _, _, _, _, _, _, _)
parse_helper(r, overflow_policy, buffer, rowp, names, types, x, e, g) ==
    IF r \notin DOMAIN rowp THEN [out |-> x, err |-> e]
    ELSE IF Pending(e) THEN [out |-> x, err |-> e]
    ELSE IF rowp[r] /= nullptr
    THEN LET s == read_column(buffer, rowp[r], g)
             p == parse(overflow_policy, s, types[r], x[r], e)
         IN  IF ~p.ok
             THEN [out |-> [x EXCEPT ![r] = p.x],
                   err |-> [p.err EXCEPT !.column_content = s,
                                         !.column_name = names[r]]]
             ELSE parse_helper(r + 1, overflow_policy, buffer, rowp, names, types,
                               [x EXCEPT ![r] = p.x], e, g)
    ELSE parse_helper(r + 1, overflow_policy, buffer, rowp, names, types, x, e, g)

\* located without the set_file_line
located_without_line(e, l) == [e EXCEPT !.file_name = l.file_name]

\* err->set_file_name(...); err->set_file_line(...) of read_row
located(e, l) == [e EXCEPT !.file_name = l.file_name, !.file_line = l.file_line]

\* CSVReader::read_row
read_row(l, rowp, order, names, pol, types, x, e, g) ==
    LET \* lines 2300-2309: the columns are in row[], parse them into the variables
        converted(f, p, after, h) ==
            [ok |-> ~Pending(h.err), in |-> after, row |-> p.row, out |-> h.out,
             err |-> IF Pending(h.err) THEN located(h.err, after) ELSE h.err,
             line |-> f.ret, text |-> CStr(f.in.buffer, f.ret), n |-> f.n]
        \* lines 2291-2298: the line was tokenized
        tokenized(f, p, after) ==
            IF ~p.ok
            THEN [ok |-> FALSE, in |-> after, row |-> p.row, out |-> x,
                  err |-> located(p.err, after),
                  line |-> f.ret, text |-> CStr(f.in.buffer, f.ret), n |-> f.n]
            ELSE converted(f, p, after,
                           parse_helper(0, pol.overflow, p.buffer, p.row, names,
                                        types, x, p.err, g))
        \* lines 2275-2291: the do-while has ended
        fetched(f) ==
            IF f.ret = nullptr
            THEN [ok |-> FALSE, in |-> f.in, row |-> rowp, out |-> x, err |-> f.err,
                  line |-> nullptr, text |-> <<>>, n |-> f.n]
            ELSE LET with(p) == tokenized(f, p, [f.in EXCEPT !.buffer = p.buffer])
                 IN  with(parse_line(pol.quote, f.in.buffer, f.ret, rowp, order, f.err))
    IN  IF Pending(e)
        THEN [ok |-> FALSE, in |-> l, row |-> rowp, out |-> x, err |-> e,
              line |-> nullptr, text |-> <<>>, n |-> 0]
        ELSE fetched(fetch_line(pol.comment, l, e, 0))

\* lines 2132-2159: CSVReader::read_header past its check of the error slot
read_header_body(l, order, names, pol, ignore_policy, e, cols) ==
    LET \* lines 2150-2159: the header line was parsed
        parsed(f, p, after) ==
            [ok |-> p.ok, in |-> after, col_order |-> p.col_order,
             column_names |-> cols,
             err |-> IF p.ok THEN p.err
                     ELSE [p.err EXCEPT !.file_name = after.file_name],
             line |-> f.ret, text |-> CStr(f.in.buffer, f.ret), n |-> f.n]
        \* lines 2134-2150: the do-while has ended
        fetched(f) ==
            IF Pending(f.err)
            THEN [ok |-> FALSE, in |-> f.in, col_order |-> order, column_names |-> cols,
                  err |-> f.err, line |-> nullptr, text |-> <<>>, n |-> f.n]
            ELSE IF f.ret = nullptr
            THEN [ok |-> FALSE, in |-> f.in, col_order |-> order, column_names |-> cols,
                  err |-> [make_error("header_missing") EXCEPT
                              !.file_name = f.in.file_name],
                  line |-> nullptr, text |-> <<>>, n |-> f.n]
            ELSE LET with(p) == parsed(f, p, [f.in EXCEPT !.buffer = p.buffer])
                 IN  with(parse_header_line(pol.quote, f.in.buffer, f.ret, order, cols,
                                            ignore_policy, f.err))
    IN  fetched(fetch_line(pol.comment, l, e, 0))

\* read_header without its check of the error slot
read_header_unguarded(l, order, names, pol, ignore_policy, e, cols) ==
    read_header_body(l, order, names, pol, ignore_policy, e, cols)

\* CSVReader::read_header
read_header(l, order, names, pol, ignore_policy, e, cols) ==
    IF Pending(e)
    THEN [ok |-> FALSE, in |-> l, col_order |-> order, column_names |-> names,
          err |-> e, line |-> nullptr, text |-> <<>>, n |-> 0]
    ELSE read_header_body(l, order, names, pol, ignore_policy, e, cols)

\* the column order of the constructor and of set_header: col_order[i] = i
identity_order == [k \in 1..column_count |-> k - 1]

\* std::fill(row, row+column_count, nullptr)
null_row == [i \in 0..(column_count - 1) |-> nullptr]

\* the names the constructor gives the columns: "col1", "col2", ...
constructor_names == [i \in 0..(column_count - 1) |-> <<"col", Digits[i + 2]>>]

(***************************************************************************)
(* The LineReader used on its own.                                         *)
(***************************************************************************)
FileName == "f.csv"

\* what a call was and what it handed back: the operation, the ignore_policy
\* it was given (read_header), its success, the line pointer the call obtained
\* and the text of that line as LineReader::next_line returned it
Returned(op, arg, ok, ptr, line) ==
    [op |-> op, arg |-> arg, ok |-> ok, ptr |-> ptr, line |-> line]

\* CSVReader<column_count> with the default policies
DefaultPolicy ==
    [quote |-> "no_quote_escape", comment |-> "no_comment",
     overflow |-> "set_to_max_on_overflow"]

\* the value the caller initialises a variable of type T with
DefaultOf(T) ==
    CASE T = "char" -> "d"
      [] T = "std::string" -> <<"d">>
      [] OTHER -> 42

\* no header call was made yet
NoHeader == [state |-> "constructor", lineno |-> 0]

\* the call found the slot empty and left an error in it
Populated(e_before, e_after) == ~Pending(e_before) /\ Pending(e_after)

LRBytes == {"x", LF, CR}

RECURSIVE SeqsUpTo(_, _)
SeqsUpTo(S, n) ==
    IF n = 0 THEN {<<>>}
    ELSE LET shorter == SeqsUpTo(S, n - 1)
         IN  shorter \cup {Append(s, b) : s \in {t \in shorter : Len(t) = n - 1}, b \in S}

InitLR ==
    /\ \E body \in SeqsUpTo(LRBytes, MaxContent), bom \in BOOLEAN :
          content = IF bom THEN BOM \o body ELSE body
    /\ in = init(content, FileName)
    /\ err = NoError
    /\ ret = Returned("constructor", 0, TRUE, nullptr, <<>>)
    /\ nlines = 0
    /\ row = null_row
    /\ column_names = constructor_names
    /\ col_order = identity_order
    /\ policy = DefaultPolicy
    /\ out = [i \in 0..(column_count - 1) |-> DefaultOf("short")]
    /\ col_type = [i \in 0..(column_count - 1) |-> "short"]
    /\ hdr = NoHeader
    /\ failed = FALSE

\* char *line = in.next_line(err)
LRNextLine ==
    \E r \in {next_line(in, err)} :
        /\ in.file_line < MaxFileLine
        /\ in' = r.in
        /\ err' = r.err
        /\ ret' = Returned("next_line", 0, r.ret /= nullptr, r.ret,
                           IF r.ret = nullptr THEN <<>> ELSE CStr(r.in.buffer, r.ret))
        /\ nlines' = IF r.ret = nullptr THEN nlines ELSE nlines + 1
        /\ failed' = (failed \/ Populated(err, r.err))
        /\ UNCHANGED <<content, row, column_names, col_order, policy, out, col_type, hdr>>

\* the caller goes on with a new, empty error slot
NewErrorSlot ==
    /\ Pending(err)
    /\ err' = NoError
    /\ ret' = Returned("new_slot", 0, TRUE, nullptr, <<>>)
    /\ UNCHANGED <<in, content, nlines, failed, row, column_names, col_order, policy, out,
                   col_type, hdr>>

NextLR == LRNextLine \/ NewErrorSlot

SpecLR == InitLR /\ [][NextLR]_vars

(***************************************************************************)
(* The CSVReader and its caller.                                           *)
(***************************************************************************)
\* most lines of a file
MaxLines == 3

Letters == <<"a", "b", "c", "d", "e">>

\* the names the caller declares: "a", "b", ...
NameTuples == {[i \in 0..(column_count - 1) |-> <<Letters[i + 1]>>]}

\* the instantiations of the reader, each with the type of the caller's
\* variables and the lines its files are made of, by position in the file
Setups ==
    {[policy |-> DefaultPolicy,
      types |-> [i \in 0..(column_count - 1) |->
                    IF i = 0 THEN "unsigned char" ELSE "short"],
      lines |-> << {<<"a", ",", "b">>, <<"b", ",", "a">>, <<"a">>, <<"a", ",", "a">>,
                    <<"x", ",", "x">>, <<"a", ",", "x">>, <<"1", ",", "2">>},
                   {<<"1", ",", "2">>, <<"3">>, <<"4", ",", ",">>, <<"a">>,
                    <<"x", ",", "1">>, <<" ", "7">>, <<"-", "1">>, <<"-", ",", "1">>},
                   {<<"3", ",", "4">>, <<"5">>} >>],
     [policy |-> [quote |-> "double_quote_escape",
                  comment |-> "single_and_empty_line_comment",
                  overflow |-> "ignore_overflow"],
      types |-> [i \in 0..(column_count - 1) |-> "std::string"],
      lines |-> << {<<"\"", "b", "\"">>, <<"#">>, <<"b", ",", "a">>, <<" ", "x">>},
                   {<<"\"", ",", "\"">>, <<"\"", "1">>, <<"#">>, <<" ", "7">>,
                    <<"a", ",", "b">>},
                   {<<"3", ",", "4">>, <<"5">>, <<>>, <<"\"", "\"", "\"">>} >>]}

\* the files of n lines of a setup
RECURSIVE FilesOf(_, _)
FilesOf(s, n) ==
    IF n = 0 THEN {<<>>}
    ELSE {Append(f, line) : f \in FilesOf(s, n - 1),
                            line \in s.lines[IF n < 3 THEN n ELSE 3]}

Files(s) == UNION {FilesOf(s, n) : n \in 0..MaxLines}

\* the bytes of a file: every line is followed by '\n'
RECURSIVE FileBytes(_)
FileBytes(lines) ==
    IF lines = <<>> THEN <<>>
    ELSE Head(lines) \o <<LF>> \o FileBytes(Tail(lines))

Init ==
    /\ \E s \in Setups :
          /\ \E f \in Files(s) : content = FileBytes(f)
          /\ policy = s.policy
          /\ col_type = s.types
          /\ out = [i \in 0..(column_count - 1) |-> DefaultOf(s.types[i])]
    /\ in = init(content, FileName)
    /\ err = NoError
    /\ row = null_row
    /\ column_names = constructor_names
    /\ col_order = identity_order
    /\ ret = Returned("constructor", 0, TRUE, nullptr, <<>>)
    /\ nlines = 0
    /\ hdr = NoHeader
    /\ failed = FALSE

\* reader.read_header(ignore_policy, err, cols...)
ReadHeader(ignore_policy, cols) ==
    \E r \in {read_header(in, col_order, column_names, policy, ignore_policy, err, cols)} :
        /\ in.file_line < MaxFileLine
        /\ in' = r.in
        /\ col_order' = r.col_order
        /\ column_names' = r.column_names
        /\ err' = r.err
        /\ ret' = Returned("read_header", ignore_policy, r.ok, r.line, r.text)
        /\ nlines' = nlines + r.n
        /\ hdr' = IF Pending(err) THEN hdr
                  ELSE [state |-> IF r.ok THEN "read_header" ELSE "failed",
                        lineno |-> IF r.line = nullptr THEN 0 ELSE nlines + r.n]
        /\ failed' = (failed \/ Populated(err, r.err))
        /\ UNCHANGED <<row, policy, out, col_type, content>>

\* reader.set_header(cols...)
SetHeader(cols) ==
    /\ column_names' = cols
    /\ row' = null_row
    /\ col_order' = identity_order
    /\ ret' = Returned("set_header", 0, TRUE, nullptr, <<>>)
    /\ hdr' = [state |-> "set_header", lineno |-> 0]
    /\ UNCHANGED <<in, policy, err, out, col_type, content, nlines, failed>>

\* what a byte that was never written may read as
UninitReadsAs == {NUL, UNINIT}

\* reader.read_row(err, out...)
ReadRow(g) ==
    \E r \in {read_row(in, row, col_order, column_names, policy, col_type, out, err, g)} :
        /\ in.file_line < MaxFileLine
        /\ in' = r.in
        /\ row' = r.row
        /\ out' = r.out
        /\ err' = r.err
        /\ ret' = Returned("read_row", 0, r.ok, r.line, r.text)
        /\ nlines' = nlines + r.n
        /\ failed' = (failed \/ Populated(err, r.err))
        /\ UNCHANGED <<column_names, col_order, policy, col_type, content, hdr>>

\* a next_line that reads on with an emptied error slot
csv_next_line_slot_reset(l, e) == next_line(l, NoError)

\* CSVReader::next_line
csv_next_line(l, e) ==
    IF Pending(e) THEN [in |-> l, err |-> e, ret |-> nullptr] ELSE next_line(l, e)

\* char *line = reader.next_line(err)
NextLine ==
    \E r \in {csv_next_line(in, err)} :
        /\ in.file_line < MaxFileLine
        /\ in' = r.in
        /\ err' = r.err
        /\ ret' = Returned("next_line", 0, r.ret /= nullptr, r.ret,
                           IF r.ret = nullptr THEN <<>> ELSE CStr(r.in.buffer, r.ret))
        /\ nlines' = IF r.ret = nullptr THEN nlines ELSE nlines + 1
        /\ failed' = (failed \/ Populated(err, r.err))
        /\ UNCHANGED <<content, row, column_names, col_order, policy, out, col_type, hdr>>

Next ==
    \/ \E ignore_policy \in 0..3, cols \in NameTuples : ReadHeader(ignore_policy, cols)
    \/ \E cols \in NameTuples : SetHeader(cols)
    \/ \E g \in UninitReadsAs : ReadRow(g)
    \/ NextLine
    \/ NewErrorSlot

Spec == Init /\ [][Next]_vars


(***************************************************************************)
(* Reference reading of a file: what the documentation says the lines of a *)
(* content are, computed on the content alone.                             *)
(***************************************************************************)
\* the pieces of s between the occurrences of sep (k occurrences, k+1 pieces)
RECURSIVE RefSplit(_, _)
RefSplit(s, sep) ==
    IF \A k \in 1..Len(s) : s[k] /= sep THEN <<s>>
    ELSE LET k == CHOOSE j \in 1..Len(s) :
                     s[j] = sep /\ \A m \in 1..(j - 1) : s[m] /= sep
         IN  <<SubSeq(s, 1, k - 1)>> \o RefSplit(SubSeq(s, k + 1, Len(s)), sep)

RefSkipBOM(s) ==
    IF Len(s) >= 3 /\ SubSeq(s, 1, 3) = BOM THEN SubSeq(s, 4, Len(s)) ELSE s

\* the lines with their '\r' still on: a trailing '\n' opens no further line
RefRawLines(s) ==
    LET pieces == RefSplit(RefSkipBOM(s), LF)
    IN  IF pieces[Len(pieces)] = <<>> THEN SubSeq(pieces, 1, Len(pieces) - 1)
        ELSE pieces

RefDropCR(line) ==
    IF Len(line) > 0 /\ line[Len(line)] = CR THEN SubSeq(line, 1, Len(line) - 1)
    ELSE line

RefLines(s) ==
    LET raw == RefRawLines(s) IN [k \in 1..Len(raw) |-> RefDropCR(raw[k])]

\* every line is shorter than a block
ShortLines(s) == \A k \in 1..Len(RefRawLines(s)) : Len(RefRawLines(s)[k]) < block_len

(***************************************************************************)
(* Reference reading of a line: the columns, names and values the          *)
(* documentation gives a line, computed on the line's text alone.          *)
(***************************************************************************)
\* the raw columns of a line, and whether every quote opened in it is closed;
\* a column with an unclosed quote and what follows it are not columns
RECURSIVE RefScan(_, _, _, _, _, _)
RefScan(quote_policy, s, k, in_quotes, cur, acc) ==
    IF k > Len(s)
    THEN IF in_quotes THEN [cols |-> acc, closed |-> FALSE]
         ELSE [cols |-> Append(acc, cur), closed |-> TRUE]
    ELSE IF quote_policy = "double_quote_escape" /\ s[k] = Quote
    THEN RefScan(quote_policy, s, k + 1, ~in_quotes, Append(cur, s[k]), acc)
    ELSE IF s[k] = Sep /\ ~in_quotes
    THEN RefScan(quote_policy, s, k + 1, FALSE, <<>>, Append(acc, cur))
    ELSE RefScan(quote_policy, s, k + 1, in_quotes, Append(cur, s[k]), acc)

RefColumns(quote_policy, line) == RefScan(quote_policy, line, 1, FALSE, <<>>, <<>>)

RefTrim(s) ==
    LET keep == {k \in 1..Len(s) : s[k] \notin TrimChars}
    IN  IF keep = {} THEN <<>>
        ELSE SubSeq(s, CHOOSE a \in keep : \A k \in keep : a <= k,
                       CHOOSE b \in keep : \A k \in keep : k <= b)

\* every pair of quotes, from the left, stands for one quote
RECURSIVE RefUndouble(_)
RefUndouble(t) ==
    IF t = <<>> THEN <<>>
    ELSE IF Len(t) >= 2 /\ t[1] = Quote /\ t[2] = Quote
    THEN <<Quote>> \o RefUndouble(SubSeq(t, 3, Len(t)))
    ELSE <<t[1]>> \o RefUndouble(Tail(t))

RefUnescape(quote_policy, s) ==
    IF quote_policy = "double_quote_escape" /\ Len(s) >= 2
       /\ s[1] = Quote /\ s[Len(s)] = Quote
    THEN RefUndouble(SubSeq(s, 2, Len(s) - 1))
    ELSE s

\* the trimmed and unescaped columns of a line
RefFields(quote_policy, line) ==
    LET c == RefColumns(quote_policy, line).cols
    IN  [k \in 1..Len(c) |-> RefUnescape(quote_policy, RefTrim(c[k]))]

RefIsComment(comment_policy, line) ==
    LET single == Len(line) > 0 /\ line[1] \in CommentStart
        empty == \A k \in 1..Len(line) : line[k] \in {" ", "\t"}
    IN  CASE comment_policy = "no_comment" -> FALSE
          [] comment_policy = "single_line_comment" -> single
          [] comment_policy = "empty_line_comment" -> empty
          [] comment_policy = "single_and_empty_line_comment" -> single \/ empty

\* the value of a string of decimal digits
RECURSIVE RefDecimal(_)
RefDecimal(s) ==
    IF s = <<>> THEN 0
    ELSE 10 * RefDecimal(SubSeq(s, 1, Len(s) - 1)) + digit_value(s[Len(s)])

RefIsNumber(s) == Len(s) > 0 /\ \A k \in 1..Len(s) : is_digit(s[k])

\* whether a field is valid for a variable of type T, and its value then
RefValid(T, s) ==
    CASE T = "std::string" -> TRUE
      [] T = "char" -> Len(s) = 1
      [] IsUnsigned(T) -> RefIsNumber(s) /\ RefDecimal(s) <= numeric_max(T)
      [] IsSigned(T) ->
            IF Len(s) > 0 /\ s[1] = "-"
            THEN RefIsNumber(Tail(s)) /\ -RefDecimal(Tail(s)) >= numeric_min(T)
            ELSE IF Len(s) > 0 /\ s[1] = "+"
            THEN RefIsNumber(Tail(s)) /\ RefDecimal(Tail(s)) <= numeric_max(T)
            ELSE RefIsNumber(s) /\ RefDecimal(s) <= numeric_max(T)

RefValue(T, s) ==
    CASE T = "std::string" -> s
      [] T = "char" -> s[1]
      [] IsUnsigned(T) -> RefDecimal(s)
      [] IsSigned(T) ->
            IF s[1] = "-" THEN -RefDecimal(Tail(s))
            ELSE IF s[1] = "+" THEN RefDecimal(Tail(s))
            ELSE RefDecimal(s)

\* the k-th line of the file
FileLine(k) == RefLines(content)[k]
FileLineCount == Len(RefLines(content))

\* the names in the header line the last read_header parsed
HeaderNames == RefFields(policy.quote, FileLine(hdr.lineno))

\* the header columns bearing the name of declared column i
HeaderColumnsOf(i) == {c \in 1..Len(HeaderNames) : HeaderNames[c] = column_names[i]}

\* the first line after line k that is no comment, or 0 when there is none
NextDataLine(k) ==
    LET rest == {j \in (k + 1)..FileLineCount : ~RefIsComment(policy.comment, FileLine(j))}
    IN  IF rest = {} THEN 0 ELSE CHOOSE j \in rest : \A m \in rest : j <= m


(***************************************************************************)
(* C2: on a content whose lines are all shorter than block_len, the k-th   *)
(* successful next_line returns the k-th line of the content (BOM skipped, *)
(* split at '\n', one trailing '\r' removed), no error is raised, and a    *)
(* call returns the end marker only once every line has been returned.     *)
(***************************************************************************)
C2_NextLineYieldsLines ==
    ShortLines(content) =>
        /\ ~Pending(err)
        /\ nlines <= Len(RefLines(content))
        /\ (ret.op = "next_line" /\ ret.ok) => ret.line = RefLines(content)[nlines]
        /\ (ret.op = "next_line" /\ ~ret.ok) => nlines = Len(RefLines(content))

\* the end marker after three lines of a content longer than two blocks, which
\* holds a "\r\n" and whose last line lacks its '\n'
C2_Witness ==
    /\ Len(content) > 2 * block_len
    /\ SubSeq(content, 1, 3) = BOM
    /\ ShortLines(content)
    /\ content[Len(content)] /= LF
    /\ \E k \in 1..(Len(content) - 1) : content[k] = CR /\ content[k + 1] = LF
    /\ ret.op = "next_line" /\ ~ret.ok
    /\ nlines >= 3

(***************************************************************************)
(* Claims about read_header and read_row.                                  *)
(***************************************************************************)
DeclaredColumns == 0..(column_count - 1)

\* the header line names each declared name once and nothing else
HeaderMatches ==
    /\ hdr.state = "read_header"
    /\ Len(HeaderNames) = column_count
    /\ \A i \in DeclaredColumns : Cardinality(HeaderColumnsOf(i)) = 1

\* line j holds column_count fields, each valid for its variable
ValidRow(j) ==
    LET c == RefColumns(policy.quote, FileLine(j))
        f == RefFields(policy.quote, FileLine(j))
    IN  /\ c.closed
        /\ Len(c.cols) = column_count
        /\ \A i \in DeclaredColumns :
              \A k \in HeaderColumnsOf(i) : RefValid(col_type[i], f[k])

\* the typed values of line j, by declared column
RefRow(j) ==
    LET f == RefFields(policy.quote, FileLine(j))
    IN  [i \in DeclaredColumns |->
            RefValue(col_type[i], f[CHOOSE k \in HeaderColumnsOf(i) : TRUE])]

\* C1: after a successful read_header on a header that holds exactly the
\* declared names, a read_row call given an empty error slot yields the next
\* line of the file that is no comment, converted to the typed values of its
\* fields, whenever that line holds N valid fields; when no such line is left
\* it returns false, leaves the error slot empty and the variables as they were.
C1_RowsInFileOrder ==
    [][(ret'.op = "read_row" /\ ~Pending(err) /\ HeaderMatches) =>
          LET j == NextDataLine(nlines)
          IN  IF j = 0
              THEN ~ret'.ok /\ ~Pending(err') /\ out' = out
              ELSE ValidRow(j) =>
                      /\ ret'.ok
                      /\ ~Pending(err')
                      /\ nlines' = j
                      /\ out' = RefRow(j)]_vars

\* a file of a header in another order than declared and two rows was read to its end
C1_Witness ==
    /\ ret.op = "read_row" /\ ~ret.ok /\ ~Pending(err) /\ ~failed
    /\ HeaderMatches
    /\ HeaderNames[1] = column_names[1]
    /\ FileLineCount = 3 /\ nlines = 3
    /\ ValidRow(2) /\ ValidRow(3)
    /\ FileLine(2) /= FileLine(3)
    /\ out = RefRow(3)

\* C3: after a successful read_header, a successful read_row has given the
\* i-th variable the value of the trimmed and unescaped field standing at the
\* file column whose header name is the i-th declared name, whatever the
\* place of that name in the header.
C3_ColumnsByName ==
    (ret.op = "read_row" /\ ret.ok /\ hdr.state = "read_header") =>
        LET f == RefFields(policy.quote, FileLine(nlines))
        IN  \A i \in DeclaredColumns : \A k \in HeaderColumnsOf(i) :
                /\ k \in DOMAIN f
                /\ RefValid(col_type[i], f[k]) => out[i] = RefValue(col_type[i], f[k])

\* the header lists the names in another order than declared, and an
\* untrimmed, quoted field went to the variable of its name
C3_Witness ==
    /\ ret.op = "read_row" /\ ret.ok /\ hdr.state = "read_header"
    /\ HeaderColumnsOf(1) = {1}
    /\ policy.quote = "double_quote_escape"
    /\ \E k \in DOMAIN FileLine(nlines) : FileLine(nlines)[k] \in TrimChars \cup {Quote}
    /\ out[1] = RefFields(policy.quote, FileLine(nlines))[1]
    /\ out[1] /= RefColumns(policy.quote, FileLine(nlines)).cols[1]

\* C4: read_row tokenizes a line whose quotes are closed only when the line
\* has as many raw columns as the column-order table has entries; with fewer
\* it fails with TooFewColumns, with more with TooManyColumns, and the error
\* carries the 1-based number of that line in the file.
C4_ColumnCountEnforced ==
    (ret.op = "read_row" /\ ret.ptr /= nullptr) =>
        LET c == RefColumns(policy.quote, FileLine(nlines))
        IN  c.closed =>
              /\ Len(c.cols) < Len(col_order) =>
                    ~ret.ok /\ err.kind = "too_few_columns" /\ err.file_line = nlines
              /\ Len(c.cols) > Len(col_order) =>
                    ~ret.ok /\ err.kind = "too_many_columns" /\ err.file_line = nlines
              /\ ret.ok => Len(c.cols) = Len(col_order)

\* a row with too few columns on line 3, after a header and a comment line
C4_Witness ==
    /\ ret.op = "read_row" /\ ret.ptr /= nullptr
    /\ hdr.state = "read_header" /\ hdr.lineno = 1
    /\ FileLineCount = 3 /\ nlines = 3
    /\ RefIsComment(policy.comment, FileLine(2))
    /\ Len(RefColumns(policy.quote, FileLine(3)).cols) < Len(col_order)
    /\ err.kind = "too_few_columns" /\ err.file_line = 3

\* C5: after a successful read_header, a read_row call leaves the variable of
\* every declared name that does not occur in the header line as it was.
C5_MissingColumnUntouched ==
    [][(ret'.op = "read_row" /\ hdr.state = "read_header") =>
          \A i \in DeclaredColumns : HeaderColumnsOf(i) = {} => out'[i] = out[i]]_vars

\* C6: with the error slot populated on entry, next_line, read_header and
\* read_row fail at once and leave the slot, the line counter, data_begin and
\* data_end, the declared names, the column order and the variables unchanged.
C6_PopulatedSlotIsNoOp ==
    [][(Pending(err) /\ ret'.op \in {"next_line", "read_header", "read_row"}) =>
          /\ ~ret'.ok /\ ret'.ptr = nullptr
          /\ err' = err
          /\ in' = in
          /\ column_names' = column_names
          /\ col_order' = col_order
          /\ out' = out]_vars

\* read_header was called with the error of a row in the slot
C6_Witness ==
    /\ ret.op = "read_header" /\ ~ret.ok /\ ret.ptr = nullptr
    /\ err.kind = "too_few_columns"
    /\ column_names = constructor_names
    /\ nlines < FileLineCount

ExtraIgnored == ret.arg \in {ignore_extra_column, ignore_extra_column + ignore_missing_column}
MissingIgnored == ret.arg \in {ignore_missing_column, ignore_extra_column + ignore_missing_column}

\* the header columns at which the scan stops with an error: a declared name
\* seen before, or an undeclared name when extra columns are not ignored
Declared(name) == \E i \in DeclaredColumns : column_names[i] = name
RaisesAt(names, k) ==
    \/ Declared(names[k]) /\ \E m \in 1..(k - 1) : names[m] = names[k]
    \/ ~Declared(names[k]) /\ ~ExtraIgnored

\* read_header obtained a header line and parsed it
HeaderParsed == ret.op = "read_header" /\ ret.ptr /= nullptr

\* C8: with ignore_extra_column not set, when the scan of the header line
\* reaches a column whose name is none of the declared names, no earlier
\* column having raised an error, read_header returns false with
\* ExtraColumnInHeader carrying that name and the file name of the reader.
C8_ExtraColumnReported ==
    (HeaderParsed /\ ~ExtraIgnored) =>
        LET names == RefFields(policy.quote, FileLine(nlines))
        IN  \A k \in DOMAIN names :
                (~Declared(names[k]) /\ \A m \in 1..(k - 1) : ~RaisesAt(names, m)) =>
                    /\ ~ret.ok
                    /\ err.kind = "extra_column_in_header"
                    /\ err.column_name = names[k]
                    /\ err.file_name = in.file_name

\* the second column of the header is the extra one
C8_Witness ==
    /\ HeaderParsed /\ ~ExtraIgnored
    /\ err.kind = "extra_column_in_header"
    /\ Len(RefFields(policy.quote, FileLine(nlines))) = 2
    /\ Declared(RefFields(policy.quote, FileLine(nlines))[1])
    /\ err.column_name = RefFields(policy.quote, FileLine(nlines))[2]

\* C9: with ignore_missing_column not set, when every column of the header
\* line was scanned without error and some declared name is no header column,
\* read_header returns false with MissingColumnInHeader carrying the absent
\* declared name of lowest index and the file name of the reader.
C9_MissingColumnReported ==
    (HeaderParsed /\ ~MissingIgnored) =>
        LET c == RefColumns(policy.quote, FileLine(nlines))
            names == RefFields(policy.quote, FileLine(nlines))
            absent == {i \in DeclaredColumns : \A k \in DOMAIN names : names[k] /= column_names[i]}
        IN  (c.closed /\ absent /= {} /\ \A k \in DOMAIN names : ~RaisesAt(names, k)) =>
                /\ ~ret.ok
                /\ err.kind = "missing_column_in_header"
                /\ \E i \in absent : /\ \A m \in absent : i <= m
                                     /\ err.column_name = column_names[i]
                /\ err.file_name = in.file_name

\* both declared names are absent from a header of ignored extra columns
C9_Witness ==
    /\ HeaderParsed /\ ret.arg = ignore_extra_column
    /\ \A i \in DeclaredColumns : HeaderColumnsOf(i) = {}
    /\ Len(HeaderNames) = 2
    /\ err.kind = "missing_column_in_header"
    /\ err.column_name = column_names[0]

\* C10: when the header line holds a name twice, read_header returns false
\* with DuplicatedColumnInHeader naming a column that occurs twice.
C10_DuplicateReported ==
    HeaderParsed =>
        LET names == RefFields(policy.quote, FileLine(nlines))
            twice == {k \in DOMAIN names : \E m \in 1..(k - 1) : names[m] = names[k]}
        IN  twice /= {} =>
                /\ ~ret.ok
                /\ err.kind = "duplicated_column_in_header"
                /\ \E k \in twice : err.column_name = names[k]

\* C11: a read_header call given an empty slot, when the file holds no line
\* after the lines already read other than lines the comment policy skips,
\* returns false with HeaderMissing carrying the file name of the reader.
C11_HeaderMissing ==
    [][(~Pending(err) /\ ret'.op = "read_header" /\ NextDataLine(nlines) = 0) =>
          /\ ~ret'.ok
          /\ err'.kind = "header_missing"
          /\ err'.file_name = in'.file_name
          /\ nlines' = FileLineCount]_vars

\* read_header found nothing but a comment line and an empty line in the file
C11_Witness ==
    /\ ret.op = "read_header" /\ ~ret.ok
    /\ err.kind = "header_missing" /\ err.file_name = FileName
    /\ hdr.lineno = 0
    /\ FileLineCount = 3 /\ nlines = 3
    /\ FileLine(3) = <<>>
    /\ \A k \in 1..3 : RefIsComment(policy.comment, FileLine(k))

(***************************************************************************)
(* Claims about the conversion of the fields of a row.                     *)
(***************************************************************************)
\* the columns of the line read_row read last that go to declared column i:
\* by name after read_header, by position otherwise
ColumnOf(i) == IF hdr.state = "read_header" THEN HeaderColumnsOf(i) ELSE {i + 1}

\* the trimmed and unescaped field of that line for declared column i
Field(i) == RefFields(policy.quote, FileLine(nlines))[CHOOSE k \in ColumnOf(i) : TRUE]

\* read_row read a line that has the columns the column order asks for
RowTokenized ==
    /\ ret.op = "read_row" /\ ret.ptr /= nullptr
    /\ hdr.state /= "failed"
    /\ RefColumns(policy.quote, FileLine(nlines)).closed
    /\ Len(RefColumns(policy.quote, FileLine(nlines)).cols) = Len(col_order)

\* the conversion reaches declared column i: the columns up to i are in the
\* line and those before i hold valid fields
Converts(i) ==
    \A j \in DeclaredColumns :
        /\ j <= i => ColumnOf(j) /= {}
        /\ j < i => RefValid(col_type[j], Field(j))

\* the error names declared column i, its content, the file and the line
ErrorAtColumn(i) ==
    /\ err.column_content = Field(i)
    /\ err.column_name = column_names[i]
    /\ err.file_name = in.file_name
    /\ err.file_line = nlines

\* C12: when read_row converts into an unsigned integer variable a field
\* whose trimmed and unescaped content starts with '-', it returns false
\* with IntegerMustBePositive carrying that content, the declared name of
\* the column, the file name and the 1-based line number of the row.
C12_IntegerMustBePositive ==
    RowTokenized =>
        \A i \in DeclaredColumns :
            (IsUnsigned(col_type[i]) /\ Converts(i)
             /\ Len(Field(i)) > 0 /\ Field(i)[1] = "-") =>
                /\ ~ret.ok
                /\ err.kind = "integer_must_be_positive"
                /\ ErrorAtColumn(i)

\* the row "-1" on the second line of the file went to an unsigned variable
C12_Witness ==
    /\ RowTokenized /\ ~ret.ok
    /\ err.kind = "integer_must_be_positive"
    /\ err.column_content = <<"-", "1">>
    /\ err.column_name = <<"a">>
    /\ err.file_line = 2
    /\ IsUnsigned(col_type[0])

(***************************************************************************)
(* detail::parse on its own: a field, the type of the variable and the     *)
(* overflow policy are chosen, then the field is converted.  The field is  *)
(* held in content, the variable is out[0].                                *)
(***************************************************************************)
\* longest field converted
MaxField == 4

FieldBytes == {"-", "+", "1", "2", "5", "6", "7", "8", "9", "x"}

IntegerTypes == {"unsigned char", "signed char"}

OverflowPolicies == {"set_to_max_on_overflow", "ignore_overflow"}

InitParse ==
    /\ content \in SeqsUpTo(FieldBytes, MaxField)
    /\ \E T \in IntegerTypes :
          /\ col_type = [i \in 0..(column_count - 1) |-> T]
          /\ out = [i \in 0..(column_count - 1) |-> DefaultOf(T)]
    /\ \E o \in OverflowPolicies : policy = [DefaultPolicy EXCEPT !.overflow = o]
    /\ in = init(<<>>, FileName)
    /\ err = NoError
    /\ row = null_row
    /\ column_names = constructor_names
    /\ col_order = identity_order
    /\ ret = Returned("constructor", 0, TRUE, nullptr, <<>>)
    /\ nlines = 0
    /\ hdr = NoHeader
    /\ failed = FALSE

\* parse<overflow_policy>(col, x, err)
ParseField ==
    /\ ret.op = "constructor"
    /\ \E p \in {parse(policy.overflow, content, col_type[0], out[0], err)} :
          /\ out' = [out EXCEPT ![0] = p.x]
          /\ err' = p.err
          /\ ret' = Returned("parse", 0, p.ok, nullptr, content)
          /\ failed' = Populated(err, p.err)
    /\ UNCHANGED <<in, row, column_names, col_order, policy, col_type, content, nlines, hdr>>

NextParse == ParseField

SpecParse == InitParse /\ [][NextParse]_vars

\* a field without its optional sign
Unsigned(s) == IF Len(s) > 0 /\ s[1] \in {"+", "-"} THEN Tail(s) ELSE s

\* C13: the conversion into an integer variable of a field that holds, after
\* its optional sign, a byte that is no decimal digit fails with NoDigit,
\* wherever that byte stands and under both overflow policies (a field for an
\* unsigned variable that starts with '-' is left to IntegerMustBePositive).
C13_NoDigitReported ==
    (ret.op = "parse" /\ ~(IsUnsigned(col_type[0]) /\ Len(content) > 0 /\ content[1] = "-")) =>
        ((\E k \in DOMAIN Unsigned(content) : ~is_digit(Unsigned(content)[k])) =>
            ~ret.ok /\ err.kind = "no_digit")

(***************************************************************************)
(* A reader constructed from a path that cannot be opened.                 *)
(***************************************************************************)
\* the paths the caller constructs a reader from
FileNames == {FileName, "-1.csv"}

\* errno as a failed fopen leaves it: ENOENT, EACCES
OpenErrnos == {2, 13}

strerror(x) == IF x = 2 THEN "No such file or directory" ELSE "Permission denied"

\* LineReader::open_file on a path fopen fails on with errno x
open_file(file_name, e, x) ==
    IF Pending(e) THEN e
    ELSE [make_error("cannot_open_file") EXCEPT !.errno_ = x, !.file_name = file_name]

\* cannot_open_file::format_error_message
format_error_message(e) ==
    IF e.kind /= "cannot_open_file" THEN e
    ELSE [e EXCEPT !.error = "Can not open file \"" \o e.file_name \o "\" because \""
                             \o strerror(e.errno_) \o "\"."]

\* what an int member that no constructor assigned may hold
Indeterminate == {-1, 0, 1, 2 * block_len + 1}

\* what file_line may hold when it was never assigned
IndeterminateLine == {0, 5}

\* what row[] may hold when the constructor returned before its std::fill
IndeterminateRow == {null_row, [i \in 0..(column_count - 1) |-> 0]}

\* the LineReader whose init was handed no byte source: it returns before it
\* assigns file_line, buffer, data_begin and data_end; the buffer stays null
unopened(file_name, data_begin, data_end, file_line) ==
    [buffer     |-> <<>>,
     data_begin |-> data_begin,
     data_end   |-> data_end,
     file_line  |-> file_line,
     file_name  |-> file_name,
     source     |-> <<>>,
     reader     |-> [valid |-> FALSE, buffer |-> 0, desired_byte_count |-> 0,
                     calls |-> <<>>]]

\* the call did not return: the process ended on an access through the null
\* buffer
Crashed == -2

\* CSVReader<column_count> reader(err, file_name) with a path that cannot be
\* opened; ret.arg is errno as fopen left it
InitOpen ==
    /\ \E file_name \in FileNames, x \in OpenErrnos :
          /\ err = format_error_message(open_file(file_name, NoError, x))
          /\ ret = Returned("constructor", x, FALSE, nullptr, <<>>)
          /\ \E data_begin \in Indeterminate, data_end \in Indeterminate,
                file_line \in IndeterminateLine :
                in = unopened(file_name, data_begin, data_end, file_line)
    /\ row \in IndeterminateRow
    /\ col_order = <<>>
    /\ column_names = [i \in 0..(column_count - 1) |-> <<>>]
    /\ content = <<>>
    /\ policy = DefaultPolicy
    /\ col_type = [i \in 0..(column_count - 1) |-> "short"]
    /\ out = [i \in 0..(column_count - 1) |-> DefaultOf("short")]
    /\ nlines = 0
    /\ hdr = NoHeader
    /\ failed = TRUE

\* LineReader::next_line gets past its checks to the memcpy of the shift or
\* to the scan for the line end, which both go through buffer
reaches_buffer(l, e) ==
    ~Pending(e) /\ l.data_begin < l.data_end /\ l.data_end <= 2 * block_len

\* a call that ends the process inside in.next_line
Crash(op, arg) ==
    /\ in' = [in EXCEPT !.file_line = in.file_line + 1]
    /\ ret' = Returned(op, arg, FALSE, Crashed, <<>>)
    /\ UNCHANGED <<row, col_order, err, content, policy, col_type, out, nlines,
                   hdr, failed>>

OpenReadHeader(ignore_policy, cols) ==
    /\ ret.ptr /= Crashed
    /\ IF in.buffer = <<>> /\ reaches_buffer(in, err)
       THEN Crash("read_header", ignore_policy) /\ column_names' = cols
       ELSE ReadHeader(ignore_policy, cols)

OpenReadRow(g) ==
    /\ ret.ptr /= Crashed
    /\ IF in.buffer = <<>> /\ reaches_buffer(in, err)
       THEN Crash("read_row", 0) /\ UNCHANGED column_names
       ELSE ReadRow(g)

OpenNextLine ==
    /\ ret.ptr /= Crashed
    /\ IF in.buffer = <<>> /\ reaches_buffer(in, err)
       THEN Crash("next_line", 0) /\ UNCHANGED column_names
       ELSE NextLine

NextOpen ==
    \/ \E ignore_policy \in 0..3, cols \in NameTuples : OpenReadHeader(ignore_policy, cols)
    \/ \E g \in UninitReadsAs : OpenReadRow(g)
    \/ OpenNextLine
    \/ NewErrorSlot

SpecOpen == InitOpen /\ [][NextOpen]_vars

\* C14: a reader constructed from a path that cannot be opened leaves
\* cannot_open_file in the slot, with the file name and the errno of the failed
\* open, and every read_header, read_row or next_line call made on it
\* afterwards returns its failure value and delivers no line or row.
C14_UnopenedReaderFails ==
    /\ ret.op = "constructor" =>
          /\ err.kind = "cannot_open_file"
          /\ err.file_name = in.file_name
          /\ err.errno_ = ret.arg
    /\ ret.op \in {"read_header", "read_row", "next_line"} =>
          /\ ~ret.ok
          /\ ret.ptr = nullptr
          /\ out = [i \in 0..(column_count - 1) |-> DefaultOf(col_type[i])]

(***************************************************************************)
(* Claims about the length of a line.                                      *)
(***************************************************************************)
\* the documented limit, 2^24-1 characters, in blocks: 2^24 is 16 blocks of
\* 2^20 bytes
documented_limit == 16 * block_len - 1

\* the line the first failing next_line call was reading
LineRead == RefRawLines(content)[nlines + 1]

\* the call just made is the first one to fail, on line nlines + 1
FirstFailure(kind) ==
    /\ ret.op = "next_line" /\ ~ret.ok
    /\ err.kind = kind
    /\ in.file_line = nlines + 1
    /\ nlines < Len(RefRawLines(content))

\* C15: the limit is 2^24-1 characters per line: next_line returns every line
\* of at most that length and populates line_length_limit_exceeded only for a
\* line that is longer.
C15_LimitAsDocumented ==
    /\ FirstFailure("line_length_limit_exceeded") => Len(LineRead) > documented_limit
    /\ (ret.op = "next_line" /\ ~Pending(err) /\ nlines < Len(RefRawLines(content))
          /\ Len(RefRawLines(content)[nlines + 1]) <= documented_limit
          /\ ~failed) => ret.ok

\* C16: once a next_line call has failed with line_length_limit_exceeded, every
\* further next_line call returns no line and leaves the caller with the same
\* error, bearing the number of the line that was too long, whether the slot
\* passed is the populated one or a new, empty one.
C16_LineTooLongIsFinal ==
    (failed /\ ret.op = "next_line") =>
        /\ ~ret.ok
        /\ err.kind = "line_length_limit_exceeded"
        /\ err.file_name = in.file_name
        /\ err.file_line = nlines + 1

(***************************************************************************)
(* The LineReader on a byte source that gives its bytes piecewise.         *)
(***************************************************************************)
\* longest content of a piecewise source: more than the 2*block_len bytes of
\* the first read
MaxPartial == 10

PartialBytes == {"x", LF}

\* the source that stops a read after cut bytes of body (never, when cut = 0)
Piecewise(body, cut) ==
    IF cut = 0 THEN body
    ELSE SubSeq(body, 1, cut) \o <<Boundary>> \o SubSeq(body, cut + 1, Len(body))

\* LineReader in(err, file_name, std::unique_ptr<ByteSourceBase>(source))
InitPartial ==
    /\ content \in {body \in SeqsUpTo(PartialBytes, MaxPartial) : ShortLines(body)}
    /\ \E cut \in 0..(Len(content) - 1) : in = init(Piecewise(content, cut), FileName)
    /\ err = NoError
    /\ ret = Returned("constructor", 0, TRUE, nullptr, <<>>)
    /\ nlines = 0
    /\ row = null_row
    /\ column_names = constructor_names
    /\ col_order = identity_order
    /\ policy = DefaultPolicy
    /\ out = [i \in 0..(column_count - 1) |-> DefaultOf("short")]
    /\ col_type = [i \in 0..(column_count - 1) |-> "short"]
    /\ hdr = NoHeader
    /\ failed = FALSE

NextPartial == LRNextLine

SpecPartial == InitPartial /\ [][NextPartial]_vars

\* C17: on a byte source whose read may return fewer bytes than asked for
\* while bytes remain, the k-th successful next_line returns the k-th line of
\* the whole content, no error is raised, and a call returns the end marker
\* only once every line has been returned.
C17_PartialReadsHandled ==
    /\ ~Pending(err)
    /\ nlines <= Len(RefLines(content))
    /\ (ret.op = "next_line" /\ ret.ok) => ret.line = RefLines(content)[nlines]
    /\ (ret.op = "next_line" /\ ~ret.ok) => nlines = Len(RefLines(content))

\* C18: after construction and after every next_line call, whatever it
\* returned, 0 <= data_begin <= data_end <= 2*block_len, and neither of the
\* two internal checks of next_line has raised its error.
C18_WindowInvariant ==
    /\ 0 <= in.data_begin
    /\ in.data_begin <= in.data_end
    /\ in.data_end <= 2 * block_len
    /\ err.kind /= "internal_error"

\* the last line, which lacks its '\n', was returned from a window that had
\* been moved down and refilled: data_end was advanced past the terminator
C18_Witness ==
    /\ Len(content) > 2 * block_len
    /\ content[Len(content)] /= LF
    /\ ret.op = "next_line" /\ ret.ok
    /\ nlines = Len(RefLines(content))
    /\ in.data_begin = in.data_end
    /\ in.data_begin > 0

(***************************************************************************)
(* One column of a line: chop_next_column, trim and unescape, as the loop  *)
(* of parse_line applies them to a column it keeps.                        *)
(***************************************************************************)
\* longest string that is quoted
MaxQuoted == 3

ColumnBytes == {"a", " ", Sep, Quote}

\* the trim characters around a quoted field
Pads == {<<>>, <<" ">>, <<"\t", " ">>}

\* what follows the field in its line: nothing, or a second column
Rests == {<<>>, <<Sep, "b">>}

\* the line as next_line hands it over: its bytes and the terminator
LineBuffer(text) ==
    [i \in 0..Len(text) |-> IF i < Len(text) THEN text[i + 1] ELSE NUL]

\* one pass of the loop of parse_line over a column that is kept
first_column(quote_policy, buffer, line, e) ==
    LET chopped(c) ==
            IF ~c.ok
            THEN [ok |-> FALSE, text |-> <<>>, line |-> c.line, err |-> c.err]
            ELSE LET trimmed(t) ==
                         LET unescaped(u) ==
                                 [ok |-> TRUE, text |-> CStr(u.buffer, u.col_begin),
                                  line |-> c.line, err |-> c.err]
                         IN  unescaped(unescape(quote_policy, t.buffer, t.col_begin,
                                                t.col_end))
                 IN  trimmed(trim(c.buffer, c.col_begin, c.col_end))
    IN  chopped(chop_next_column(quote_policy, buffer, line, e))

\* s with every quote doubled
RECURSIVE Doubled(_)
Doubled(s) ==
    IF s = <<>> THEN <<>>
    ELSE (IF Head(s) = Quote THEN <<Quote, Quote>> ELSE <<Head(s)>>) \o Doubled(Tail(s))

\* s as a quoted field, between trim characters
Quoted(s, before, after) == before \o <<Quote>> \o Doubled(s) \o <<Quote>> \o after

InitColumn ==
    /\ \E s \in SeqsUpTo(ColumnBytes, MaxQuoted), before \in Pads, after \in Pads,
          rest \in Rests : content = Quoted(s, before, after) \o rest
    /\ policy = [DefaultPolicy EXCEPT !.quote = "double_quote_escape"]
    /\ col_type = [i \in 0..(column_count - 1) |-> "std::string"]
    /\ out = [i \in 0..(column_count - 1) |-> DefaultOf("std::string")]
    /\ in = init(<<>>, FileName)
    /\ err = NoError
    /\ row = null_row
    /\ column_names = constructor_names
    /\ col_order = identity_order
    /\ ret = Returned("constructor", 0, TRUE, nullptr, <<>>)
    /\ nlines = 0
    /\ hdr = NoHeader
    /\ failed = FALSE

\* the first column of the line: ret.ptr is where the line goes on
ChopColumn ==
    /\ ret.op = "constructor"
    /\ \E c \in {first_column(policy.quote, LineBuffer(content), 0, err)} :
          /\ out' = [out EXCEPT ![0] = IF c.ok THEN c.text ELSE out[0]]
          /\ err' = c.err
          /\ ret' = Returned("chop_next_column", 0, c.ok, c.line, content)
          /\ failed' = Populated(err, c.err)
    /\ UNCHANGED <<in, row, column_names, col_order, policy, col_type, content, nlines, hdr>>

NextColumn == ChopColumn

SpecColumn == InitColumn /\ [][NextColumn]_vars

\* C19: under double_quote_escape the field made of a string s between
\* quotes, every quote of s doubled, with or without trim characters around
\* it, is chopped as one column (the line goes on behind the field's
\* separator, or ends), and trim followed by unescape gives s.
C19_QuotedRoundTrip ==
    ret.op = "chop_next_column" =>
        \A s \in SeqsUpTo(ColumnBytes, MaxQuoted), before \in Pads, after \in Pads,
           rest \in Rests :
            content = Quoted(s, before, after) \o rest =>
                /\ ret.ok
                /\ ~Pending(err)
                /\ out[0] = s
                /\ ret.ptr = IF rest = <<>> THEN nullptr
                             ELSE Len(Quoted(s, before, after)) + 1

\* s holds a trim character, a quote and the separator; the field stands
\* between trim characters and a second column follows it
C19_Witness ==
    /\ ret.op = "chop_next_column" /\ ret.ok
    /\ out[0] = <<" ", Quote, Sep>>
    /\ content = <<"\t", " ", Quote, " ", Quote, Quote, Sep, Quote, " ", Sep, "b">>
    /\ ret.ptr = 10

\* the number an optionally signed string of digits denotes
Denoted(s) ==
    IF s[1] = "-" THEN -RefDecimal(Tail(s)) ELSE RefDecimal(Unsigned(s))

\* v brought into the range of T
Clamped(T, v) ==
    IF v > numeric_max(T) THEN numeric_max(T)
    ELSE IF v < numeric_min(T) THEN numeric_min(T)
    ELSE v

\* the conversion under set_to_max_on_overflow of a string of digits with an
\* optional sign
ClampedParse ==
    /\ ret.op = "parse"
    /\ policy.overflow = "set_to_max_on_overflow"
    /\ RefIsNumber(Unsigned(content))

\* C20 as stated: under set_to_max_on_overflow the conversion of an optionally
\* signed string of digits into an integer type succeeds without error and
\* yields the value when the type holds it, the type's maximum when the value
\* is above it and the type's minimum when it is below it.
C20_AnyIntegerClamps ==
    ClampedParse =>
        /\ ret.ok
        /\ ~Pending(err)
        /\ out[0] = Clamped(col_type[0], Denoted(content))

\* C20: under set_to_max_on_overflow the conversion of a string of digits,
\* with an optional sign when the type is signed and with no sign when it is
\* unsigned, succeeds without error and yields the value when the type holds
\* it (the minimum itself included), the type's maximum when the value is
\* above it and the type's minimum when it is below it.
C20_SetToMaxClamps ==
    (ClampedParse /\ (IsUnsigned(col_type[0]) => Unsigned(content) = content)) =>
        /\ ret.ok
        /\ ~Pending(err)
        /\ out[0] = Clamped(col_type[0], Denoted(content))

\* "-128" into a signed char is the minimum itself, parsed as it stands
C20_Witness ==
    /\ ClampedParse
    /\ col_type[0] = "signed char"
    /\ content = <<"-", "1", "2", "8">>
    /\ ret.ok
    /\ out[0] = numeric_min("signed char")

\* v as a variable of type T holds it after wrapping: v modulo 2^w
Wrapped(T, v) ==
    IF IsSigned(T)
    THEN ((v + 2 ^ (Bits(T) - 1)) % (2 ^ Bits(T))) - 2 ^ (Bits(T) - 1)
    ELSE v % (2 ^ Bits(T))

\* C21: under ignore_overflow the conversion of a string of digits whose
\* value is above the maximum of the type goes on over all the digits and
\* yields the wrapped value, the value modulo 2^w, without error.
C21_IgnoreOverflowWraps ==
    (/\ ret.op = "parse"
     /\ policy.overflow = "ignore_overflow"
     /\ RefIsNumber(content)
     /\ RefDecimal(content) > numeric_max(col_type[0])) =>
        /\ ret.ok
        /\ ~Pending(err)
        /\ out[0] = Wrapped(col_type[0], RefDecimal(content))

(***************************************************************************)
(* Claims about the line counter.                                          *)
(***************************************************************************)
\* unsigned get_file_line() const
get_file_line(l) == l.file_line

\* C22 as stated: get_file_line() is the number of lines returned so far: 0
\* before the first next_line call, one more after every call that returns a
\* line, and unchanged by a call that returns the end marker or fails.
C22_CountsReturnedLines == get_file_line(in) = nlines

\* C22: get_file_line() is 0 after construction; a next_line call adds one to
\* it when it returns a line and also when it fails with an error it puts in
\* the slot (the line is counted before it is scanned); a call that returns
\* the end marker or is made with a populated slot leaves it alone.
C22_CountsLinesRead ==
    [][/\ ret.op = "constructor" => get_file_line(in) = 0
       /\ ret'.op = "next_line" =>
             get_file_line(in') = get_file_line(in)
                                  + (IF ret'.ok \/ Populated(err, err') THEN 1 ELSE 0)]_vars

\* the second line is too long: the failed call has counted it
C22_Witness ==
    /\ ret.op = "next_line" /\ ~ret.ok
    /\ err.kind = "line_length_limit_exceeded"
    /\ nlines = 1
    /\ get_file_line(in) = 2

(***************************************************************************)
(* The CSVReader whose caller also asks for columns.                       *)
(***************************************************************************)
\* std::find(std::begin(column_names), std::end(column_names), name)
\*     - std::begin(column_names)
find_name(names, name) ==
    IF \E i \in DOMAIN names : names[i] = name
    THEN CHOOSE i \in DOMAIN names :
            names[i] = name /\ \A j \in DOMAIN names : names[j] = name => i <= j
    ELSE column_count

\* a has_column that takes the entry it finds out of col_order
has_column_taking(l, order, names, name) ==
    [in |-> l,
     col_order |-> [k \in DOMAIN order |->
                       IF order[k] = find_name(names, name) THEN -1 ELSE order[k]],
     column_names |-> names,
     ok |-> \E k \in DOMAIN order : order[k] = find_name(names, name)]

\* CSVReader::has_column, a const member: the reader after the call, and
\* whether col_order holds the index of the name
has_column(l, order, names, name) ==
    [in |-> l, col_order |-> order, column_names |-> names,
     ok |-> \E k \in DOMAIN order : order[k] = find_name(names, name)]

\* the names the caller asks for: a declared one and one it never declared
AskedNames == {<<"b">>, <<"x">>}

\* reader.has_column(name); ret.line is the name asked for
HasColumn(name) ==
    \E r \in {has_column(in, col_order, column_names, name)} :
        /\ in' = r.in
        /\ col_order' = r.col_order
        /\ column_names' = r.column_names
        /\ ret' = Returned("has_column", 0, r.ok, nullptr, name)
        /\ UNCHANGED <<row, policy, err, out, col_type, content, nlines, hdr, failed>>

NextHas ==
    \/ Next
    \/ \E name \in AskedNames : HasColumn(name)

SpecHas == Init /\ [][NextHas]_vars

\* C23: a has_column call leaves the column order, the declared names, the
\* line counter and the position in the buffer as they were, and a call that
\* follows a call with the same name returns the same result.
C23_HasColumnIsPure ==
    [][ret'.op = "has_column" =>
          /\ col_order' = col_order
          /\ column_names' = column_names
          /\ get_file_line(in') = get_file_line(in)
          /\ in'.data_begin = in.data_begin /\ in'.data_end = in.data_end
          /\ in'.buffer = in.buffer
          /\ (ret.op = "has_column" /\ ret.line = ret'.line) => ret'.ok = ret.ok]_vars

\* after a header that lacks the declared column "b" was accepted under
\* ignore_missing_column, the column is asked for and is not there
C23_Witness ==
    /\ ret.op = "has_column" /\ ret.line = <<"b">> /\ ~ret.ok
    /\ hdr.state = "read_header"
    /\ HeaderNames = << <<"a">> >>
    /\ col_order = <<0>>

(***************************************************************************)
(* Claims about the rows read after a header was accepted.                 *)
(***************************************************************************)
\* read_row obtained a line whose quotes are closed, the last read_header
\* having accepted its header line
RowAfterHeader ==
    /\ ret.op = "read_row" /\ ret.ptr /= nullptr
    /\ hdr.state = "read_header"
    /\ RefColumns(policy.quote, FileLine(nlines)).closed

\* the number of raw fields of the line read_row obtained
RawFields == Len(RefColumns(policy.quote, FileLine(nlines)).cols)

\* the row fails with an error of this kind that carries its line number
RowFailsWith(kind) == ~ret.ok /\ err.kind = kind /\ err.file_line = nlines

\* C24 as stated: after an accepted header a row with fewer raw fields than
\* the number N of declared columns fails with TooFewColumns, one with more
\* than N with TooManyColumns, the error carrying the row's line number.
C24_RowsCountDeclaredColumns ==
    RowAfterHeader =>
        /\ RawFields < column_count => RowFailsWith("too_few_columns")
        /\ RawFields > column_count => RowFailsWith("too_many_columns")

\* C24: after an accepted header a row with fewer raw fields than the header
\* line has columns fails with TooFewColumns, one with more fields than that
\* with TooManyColumns, the error carrying the row's line number.
C24_RowsCountHeaderColumns ==
    RowAfterHeader =>
        /\ RawFields < Len(HeaderNames) => RowFailsWith("too_few_columns")
        /\ RawFields > Len(HeaderNames) => RowFailsWith("too_many_columns")

\* the header "a" was accepted under ignore_missing_column; the row "1,2"
\* has as many fields as columns are declared and fails with TooManyColumns
C24_Witness ==
    /\ RowAfterHeader
    /\ HeaderNames = << <<"a">> >>
    /\ FileLine(nlines) = <<"1", ",", "2">>
    /\ RawFields = column_count
    /\ RowFailsWith("too_many_columns")
    /\ nlines = 2

\* the header line the last read_header parsed, when its quotes are closed
ParsedHeader ==
    /\ hdr.state \in {"read_header", "failed"}
    /\ hdr.lineno /= 0
    /\ RefColumns(policy.quote, FileLine(hdr.lineno)).closed

\* what the column-order table is to hold
ColumnOrderSound ==
    /\ hdr.state \in {"constructor", "set_header"} => col_order = identity_order
    /\ ParsedHeader => Len(col_order) = Len(HeaderNames)
    /\ \A k \in DOMAIN col_order : col_order[k] \in {-1} \cup DeclaredColumns
    /\ \A k, m \in DOMAIN col_order :
          (col_order[k] = col_order[m] /\ col_order[k] /= -1) => k = m

\* C25: in every state the calls lead to, the column-order table has one
\* entry per column of the header line parsed last (the N identity entries
\* after construction or set_header), every entry is the ignore sentinel or a
\* declared index that occurs once, and only read_header and set_header change
\* the table.
C25_ColumnOrderMatchesHeader ==
    [][/\ ColumnOrderSound'
       /\ col_order' /= col_order => ret'.op \in {"read_header", "set_header"}]_vars

(***************************************************************************)
(* detail::parse called on one field, with the error slot empty or already *)
(* populated.                                                              *)
(***************************************************************************)
\* longest field of a call with a slot that may be populated
MaxPendingField == 2

ParsedTypes == {"char", "std::string", "unsigned char", "signed char"}

\* the error an earlier step may have left in the slot
EarlierErrors == {NoError, make_error("too_few_columns")}

InitPending ==
    /\ content \in SeqsUpTo(FieldBytes, MaxPendingField)
    /\ \E T \in ParsedTypes :
          /\ col_type = [i \in 0..(column_count - 1) |-> T]
          /\ out = [i \in 0..(column_count - 1) |-> DefaultOf(T)]
    /\ policy = DefaultPolicy
    /\ err \in EarlierErrors
    /\ in = init(<<>>, FileName)
    /\ row = null_row
    /\ column_names = constructor_names
    /\ col_order = identity_order
    /\ ret = Returned("constructor", 0, TRUE, nullptr, <<>>)
    /\ nlines = 0
    /\ hdr = NoHeader
    /\ failed = Pending(err)

NextPending == ParseField

SpecPending == InitPending /\ [][NextPending]_vars

\* C26: a field parser called with an error pending in the slot returns
\* false at once: the caller's variable and the slot are left as they were.
C26_ParsersShortCircuit ==
    [][(ret'.op = "parse" /\ Pending(err)) =>
          /\ ~ret'.ok
          /\ out' = out
          /\ err' = err]_vars

\* read_row obtained a line under double_quote_escape
QuotedRowRead ==
    /\ ret.op = "read_row" /\ ret.ptr /= nullptr
    /\ policy.quote = "double_quote_escape"

\* C27: under double_quote_escape, when one of the columns the column-order
\* table expects opens a quote that is not closed before the end of the line,
\* read_row returns false with EscapedStringNotClosed carrying the line's
\* number and the file name; and a line whose quoted runs are closed is split
\* at the separators outside them only: when that gives as many columns as
\* the table expects, the line is tokenized.
C27_UnclosedQuoteReported ==
    QuotedRowRead =>
        /\ (~RefColumns(policy.quote, FileLine(nlines)).closed /\ RawFields < Len(col_order)) =>
              /\ RowFailsWith("escaped_string_not_closed")
              /\ err.file_name = in.file_name
        /\ (RefColumns(policy.quote, FileLine(nlines)).closed /\ RawFields = Len(col_order)) =>
              err.kind \notin {"escaped_string_not_closed", "too_few_columns",
                               "too_many_columns"}

\* line 3 opens a quote that two consecutive quotes do not close
C27_Witness ==
    /\ QuotedRowRead
    /\ nlines = 3
    /\ FileLine(3) = <<Quote, Quote, Quote>>
    /\ Len(col_order) > 0
    /\ RowFailsWith("escaped_string_not_closed")
    /\ err.file_name = FileName

\* C28: a read_row or read_header call made with an empty slot passes over
\* the lines the comment policy classifies as comments: the line it tokenizes
\* is the next line of the file that is no comment, and when there is none it
\* obtains no line; every line passed over is counted, so that the line
\* counter, and the line number of an error the call raises on its line, is
\* the number of that line in the file.
C28_CommentsSkippedAndCounted ==
    [][(ret'.op \in {"read_row", "read_header"} /\ ~Pending(err)) =>
          IF NextDataLine(nlines) = 0
          THEN /\ ret'.ptr = nullptr
               /\ nlines' = FileLineCount
               /\ get_file_line(in') = FileLineCount
          ELSE /\ ret'.ptr /= nullptr
               /\ nlines' = NextDataLine(nlines)
               /\ ret'.line = FileLine(nlines')
               /\ get_file_line(in') = nlines'
               /\ (ret'.op = "read_row" /\ Pending(err')) => err'.file_line = nlines']_vars

\* line 2 is the comment "#": the row read next is line 3, and the error
\* raised on it carries 3
C28_Witness ==
    /\ ret.op = "read_row" /\ ret.ptr /= nullptr
    /\ hdr.lineno = 1
    /\ FileLine(2) = <<"#">>
    /\ RefIsComment(policy.comment, FileLine(2))
    /\ nlines = 3
    /\ ret.line = FileLine(3)
    /\ Pending(err) /\ err.file_line = 3

(***************************************************************************)
(* Claims about the reads of the byte source.                              *)
(***************************************************************************)
\* the calls made so far on the byte source and on the SynchronousReader
Calls == in.reader.calls

\* how many reads of the byte source the calls hold
RECURSIVE Reads(_)
Reads(calls) ==
    IF calls = <<>> THEN 0
    ELSE (IF Head(calls) \in {"read", "finish_read"} THEN 1 ELSE 0) + Reads(Tail(calls))

\* after the read of init, start_read and finish_read take turns, start_read
\* first
TakeTurns(calls) ==
    /\ Len(calls) >= 1 /\ calls[1] = "read"
    /\ \A k \in 2..Len(calls) :
          calls[k] = IF k % 2 = 0 THEN "start_read" ELSE "finish_read"

\* C29: the byte source is read once at construction and then at most once
\* per next_line call, in a call that finds data_begin >= block_len and moves
\* the window; every finish_read follows a start_read of its own, and the
\* start_read that is outstanding targets the block behind the window,
\* [2*block_len, 3*block_len).
C29_OneReadPerBlock ==
    [][/\ ret.op = "constructor" => Reads(Calls) = 1
       /\ TakeTurns(Calls')
       /\ in'.reader.valid =>
             /\ in'.reader.buffer = 2 * block_len
             /\ in'.reader.desired_byte_count = block_len
             /\ Calls'[Len(Calls')] = "start_read"
       /\ Reads(Calls') <= Reads(Calls) + 1
       /\ Reads(Calls') > Reads(Calls) =>
             /\ ret'.op = "next_line"
             /\ in.data_begin >= block_len
             /\ in'.data_begin <= in.data_begin]_vars

\* three reads were made, at construction and in two calls that moved the
\* window, and they took the whole content of more than two blocks
C29_Witness ==
    /\ Len(content) > 2 * block_len
    /\ in.source = <<>>
    /\ ret.op = "next_line"
    /\ Calls = <<"read", "start_read", "finish_read", "start_read", "finish_read",
                 "start_read">>

(***************************************************************************)
(* Claims about the variables of a read_row that fails.                    *)
(***************************************************************************)
\* the errors parse_line raises
TokenizationErrors == {"too_few_columns", "too_many_columns", "escaped_string_not_closed"}

\* the declared column of a name
ColumnNamed(name) == CHOOSE k \in DeclaredColumns : column_names[k] = name

\* the columns of a line that parse_line hands to declared column i
PlacesOf(i) == {p \in DOMAIN col_order : col_order[p] = i}

\* the trimmed and unescaped field of line n for declared column i
FieldOf(n, i) == RefFields(policy.quote, FileLine(n))[CHOOSE p \in PlacesOf(i) : TRUE]

\* C30: a read_row that fails while it tokenizes its line (too few columns,
\* too many columns, quoted string not closed) changes no variable of the
\* caller; one that fails converting declared column k leaves the variables
\* of the columns after k as they were, while those of the columns before k
\* that the line holds have the values of their fields in that line; either
\* way the line is consumed.
C30_FailedRowFrame ==
    [][(ret'.op = "read_row" /\ ~Pending(err) /\ Pending(err') /\ ret'.ptr /= nullptr) =>
          /\ nlines' = NextDataLine(nlines)
          /\ get_file_line(in') = nlines'
          /\ ret'.line = FileLine(nlines')
          /\ IF err'.kind \in TokenizationErrors
             THEN out' = out
             ELSE \A i \in DeclaredColumns :
                     /\ i > ColumnNamed(err'.column_name) => out'[i] = out[i]
                     /\ (i < ColumnNamed(err'.column_name) /\ PlacesOf(i) /= {}
                         /\ RefValid(col_type[i], FieldOf(nlines', i))) =>
                            out'[i] = RefValue(col_type[i], FieldOf(nlines', i))]_vars

\* after the header "b,a" the row "x,1" failed at declared column b, after a
\* took the 1 of the line
C30_Witness ==
    /\ ret.op = "read_row" /\ ~ret.ok /\ ret.ptr /= nullptr
    /\ hdr.state = "read_header" /\ col_order = <<1, 0>>
    /\ nlines = 2 /\ FileLine(2) = <<"x", ",", "1">>
    /\ err.kind = "no_digit" /\ err.column_name = <<"b">>
    /\ err.column_content = <<"x">>
    /\ out[0] = 1

====
